---- MODULE Spec2Model ----
(***************************************************************************)
(* Model of the LLM worker pool (src/src/utils/workerModule.js) and of the *)
(* background execution unit it talks to (the llmWorker part of            *)
(* src/src/App.js).                                                         *)
(*                                                                         *)
(* The orchestrating side is one JavaScript event loop.  An async method   *)
(* runs synchronously up to its first await; what follows the await is a   *)
(* continuation (microtask).  A message event of a worker (the pool's      *)
(* worker.onmessage) is a macrotask: it starts only when no continuation   *)
(* is pending.  Client code may call the pool at any point of a turn.      *)
(* Units run in parallel with the orchestrator and with each other.        *)
(*                                                                         *)
(* The module also models the chunk store (the IndexedDB module in         *)
(* src/src/utils/formatOutput.js) and the chunked downloader               *)
(* (src/unnamed/part_000): every await of a run is a step, the network     *)
(* answers are chosen nondeterministically, and a deleteModel call works   *)
(* in a transaction that commits or aborts as a whole.                     *)
(***************************************************************************)
EXTENDS Integers, Sequences, FiniteSets, TLC

\* ---------------------------------------------------------------- bounds
\* Largest size asked of the constructor.
MaxSize == 2
\* Number of calls of loadModel, generateText, chatCompletion and unloadModel
\* that can be in progress at the same time.
MaxCalls == 3
\* Number of direct callers of getWorker at the same time.
MaxCallers == 4
\* Dispatches (correlation ids) considered in one run.
MaxCallbackId == 5
\* Number of distinct model ids.
NumModels == 1
\* Number of distinct model ids in the requests posted to one unit.
NumUnitModels == 2
\* Number of requests posted to one unit.
MaxPosted == 4
\* Largest number of messages passed to chatCompletion.
MaxMessages == 3
\* Largest number of characters of a systemPrompt option.
MaxPromptLen == 2
\* Number of distinct progress handlers a client installs.
NumHandlers == 2
\* Number of runs of downloadModelInChunks / resumeModelDownload considered.
MaxRuns == 2
\* Largest file size (content-length) a server reports, in bytes.
MaxFileSize == 4
\* Largest chunk size a caller passes, in bytes.
MaxChunkSize == 3
\* Number of distinct urls a model is downloaded from.
NumUrls == 2

\* ------------------------------------------------------- program constants
MinPoolSize == 1
MaxPoolSize == 16
FirstCallbackId == 1
\* 50 * 1024 * 1024
DEFAULT_CHUNK_SIZE == 52428800

VARIABLES
    size,            \* this.size
    workers,         \* this.workers: the slot ids of the created units
    idle,            \* this.idle: sequence of slot ids
    busy,            \* this.busy: the keys of the Map
    taskQueue,       \* this.taskQueue: sequence of waiting getWorker calls
    callbacks,       \* this.callbacks: correlation id -> waiting call
    nextCallbackId,  \* this.nextCallbackId
    progressHandler, \* this.progressHandler
    calls,           \* the client calls (async frames) in progress
    units,           \* the execution units, by slot id
    settled,         \* history: how often the continuation of an id was settled
    ret,             \* history: what the step just taken returned, if a method returned in it
    models,          \* object store 'models': model id -> model record
    chunks,          \* object store 'chunks': the <<model id, index>> of the chunk records
    runs,            \* the runs of downloadModelInChunks / resumeModelDownload
    net,             \* history: the network requests issued by each run, in order
    events,          \* history: the progress events reported by each run, in order
    tx,              \* the readwrite transaction of a deleteModel call in progress
    chat,            \* a call of the unit's chatCompletion: its arguments and what
                     \* it passed to the model runtime
    gen              \* a generation request served by a unit that holds an engine:
                     \* the methods of the engine and the one the unit invoked

\* The chunk store and its users.
storeVars == <<models, chunks, runs, net, events, tx>>

\* The pool and its units, without the history variable ret.
poolVars == <<size, workers, idle, busy, taskQueue, callbacks, nextCallbackId,
              progressHandler, calls, units, settled>>

\* The unit's chatCompletion and generateText, taken alone.
chatVars == <<chat, gen>>

vars == <<poolVars, ret, storeVars, chatVars>>

Models == 1..NumModels
UnitModels == 1..NumUnitModels
CallbackIds == FirstCallbackId..MaxCallbackId

NoWorker == -1
NoModel == 0
\* The value read from an array index that holds no element.
Undefined == -2
\* this.progressHandler = null
NoHandler == 0
\* The id of a message that has none.
NoCallbackId == 0
\* Progress messages of one unit waiting to be delivered at the same time.
MaxProgress == 1
Handlers == 1..NumHandlers

Min(a, b) == IF a < b THEN a ELSE b
Max(a, b) == IF a > b THEN a ELSE b

Calls == 1..Max(MaxCalls, MaxCallers)

\* constructor: this.size = Math.max(1, Math.min(size, 16))
PoolSize(requested) == Max(MinPoolSize, Min(requested, MaxPoolSize))

\* The slot with index i has id `worker-${i}`; the model keeps the index.
Slots == 0..(size - 1)
\* An id that names no slot of the pool.
UnknownId == size
SlotArgs == Slots \cup {UnknownId}

RECURSIVE Iota(_, _)
Iota(i, n) == IF i >= n THEN <<>> ELSE <<i>> \o Iota(i + 1, n)

Range(s) == {s[i] : i \in 1..Len(s)}

\* ------------------------------------------------------------ client calls
\* op:      the pool method called
\* pc:      done      - not in progress (never started, returned or threw)
\*          waiting   - getWorker pending in taskQueue
\*          gotWorker - loadModel: getWorker resolved, continuation pending
\*          awaiting  - a request was dispatched, its promise is pending
\*          resumed   - the promise was settled, continuation pending
\*          holding   - the caller was given a slot and has not released it
\* arg:     the slot id (or model id) passed
\* slot:    the slot getWorker gave this call
\* via:     how the slot was obtained: from the idle set or from a release
\* owner:   unloadModel: the callers that held the slot when it was called
\* settle:  how the dispatched promise was settled
\* payload: the unit's answer: its result's success flag
FreshCall == [op |-> "none", pc |-> "done", arg |-> NoWorker, slot |-> NoWorker,
              via |-> "none", owner |-> {}, settle |-> "none", payload |-> "none"]

\* What a pool method returned (ret):
\* op:      the method
\* arg:     the slot id it was called with (generateText, chatCompletion, unloadModel)
\* sent:    whether the call dispatched a request to a unit
\* settle, payload: how its promise was settled
\* res:     ok    - an object with success: true
\*          fail  - an object with success: false and an error
\*          true, false - the boolean of unloadModel
\*          threw - the method threw (its promise is rejected)
Return(op, arg, sent, settle, payload, res) ==
    [op |-> op, arg |-> arg, sent |-> sent, settle |-> settle, payload |-> payload,
     res |-> res]
NoReturn == Return("none", NoWorker, FALSE, "none", "none", "none")

\* ------------------------------------------------------------------- units
\* engine:    the model id the held engine was created for, or NoModel
\* modelId:   the recorded model id
\* isLoading: the unit's isLoading flag
\* inbox:     messages posted to the unit, not handled yet
\* pending:   requests whose handler is suspended in the model runtime
\* outbox:    messages posted by the unit, not delivered to the pool yet
FreshUnit == [engine |-> NoModel, modelId |-> NoModel, isLoading |-> FALSE,
              inbox |-> <<>>, pending |-> {}, outbox |-> <<>>]

\* ------------------------------------------------------------ chunk store
Runs == 1..MaxRuns
Urls == 1..NumUrls
FileSizes == 0..MaxFileSize
ChunkSizes == 1..MaxChunkSize

\* The record of option fields a caller did not pass, and of record fields
\* that were not saved.
Absent == -1

\* A run of downloadModelInChunks (op download) or resumeModelDownload (op
\* resume):
\* pc:        done - not in flight; resume, head, saveMeta, check, fetch, save -
\*            suspended at that await
\* url, modelId, chunkSize, contentLength, numChunks, i: the locals of the run
\* passed:    the chunkSize option passed by the caller, or Absent
\* had:       the chunk indices persisted when the run started
FreshRun == [op |-> "none", pc |-> "done", url |-> Absent, modelId |-> NoModel,
             passed |-> Absent,
             chunkSize |-> Absent, contentLength |-> Absent, numChunks |-> Absent,
             i |-> 0, had |-> {}]

\* A deleteModel call in progress, with its transaction:
\* stage:  record - the delete of the model record is requested
\*         list   - the chunk records of the model are requested
\*         chunks - the chunk records in todo are deleted one by one
\*         commit - tx.done is awaited
\* models, chunks: the object stores as the transaction sees them
\* todo:   the indices of the chunk records still to delete
\* No deleteModel transaction is open.
NoTx == [open |-> FALSE, stage |-> "none", modelId |-> NoModel, models |-> <<>>,
         chunks |-> {}, todo |-> <<>>]

\* -------------------------------------------------------- chat messages
\* The characters of the texts: a white space character and another one.
Space == " "
Chars == {Space, "a"}

\* The texts of at most n characters.
Texts(n) == UNION {[1..k -> Chars] : k \in 0..n}

\* The message contents.
Contents == {<<"a">>, <<"a", "a">>}

\* An option of a call: the set of its value, empty when the option is not
\* passed (undefined).
NotPassed == {}
Passed(value) == {value}
Value(option) == CHOOSE value \in option : TRUE
SystemPrompts == {Passed(text) : text \in Texts(MaxPromptLen)} \cup {NotPassed}

\* { role, content }
Message(role, content) == [role |-> role, content |-> content]
Roles == {"system", "user", "assistant"}
ChatMessage == [role : Roles, content : Contents]
MessageSeqs == UNION {[1..k -> ChatMessage] : k \in 0..MaxMessages}

\* The methods a model handle (engine) may expose to a generation request.
Methods == {"chatCompletion", "completion", "generate"}
NoMethod == "none"

\* No generation request is modelled.
NoGen == [pc |-> "none", type |-> "none", handle |-> {}, prompt |-> <<>>,
          invoked |-> NoMethod, passed |-> <<>>]

\* No call of the unit's chatCompletion is modelled.
NoChat == [pc |-> "none", messages |-> <<>>, systemPrompt |-> NotPassed, passed |-> <<>>]

\* initialize(): the loop over i; createLLMWorker() throws for the indices in
\* failing.  A created unit is pushed to this.workers and this.workers[i] is
\* pushed to this.idle.
RECURSIVE Initialize(_, _, _, _)
Initialize(i, n, failing, p) ==
    IF i >= n
    THEN p
    ELSE IF i \in failing
         THEN Initialize(i + 1, n, failing, p)
         ELSE LET ws == Append(p.workers, i)
              IN  Initialize(i + 1, n, failing,
                             [workers |-> ws,
                              idle |-> Append(p.idle,
                                              IF i + 1 <= Len(ws) THEN ws[i + 1]
                                                                  ELSE Undefined)])

\* new LLMWorkerPool(requested), where the creation of the units in failing
\* throws; and the empty chunk store.
Construct(requested, failing) ==
    LET p == Initialize(0, PoolSize(requested), failing, [workers |-> <<>>, idle |-> <<>>])
    IN  /\ size = PoolSize(requested)
        /\ workers = p.workers
        /\ idle = p.idle
        /\ busy = {}
        /\ taskQueue = <<>>
        /\ callbacks = <<>>
        /\ nextCallbackId = FirstCallbackId
        /\ progressHandler = NoHandler
        /\ calls = [c \in Calls |-> FreshCall]
        /\ units = [u \in 0..(PoolSize(requested) - 1) |-> FreshUnit]
        /\ settled = [i \in CallbackIds |-> 0]
        /\ ret = NoReturn
        /\ models = <<>>
        /\ chunks = {}
        /\ runs = [r \in Runs |-> FreshRun]
        /\ net = [r \in Runs |-> <<>>]
        /\ events = [r \in Runs |-> <<>>]
        /\ tx = NoTx

\* Every unit is created.
Init == chat = NoChat /\ gen = NoGen /\ \E requested \in 0..MaxSize : Construct(requested, {})

\* The empty chunk store, beside a pool of the smallest size.
InitStore == chat = NoChat /\ gen = NoGen /\ Construct(MinPoolSize, {})

\* The creation of any of the units may throw.
InitWithFailures ==
    \E requested \in 0..MaxSize :
        \E failing \in SUBSET (0..(PoolSize(requested) - 1)) :
            chat = NoChat /\ gen = NoGen /\ Construct(requested, failing)

\* ----------------------------------------------------------- pool helpers
\* The bookkeeping getWorker and releaseWorker work on.
Pool == [idle |-> idle, busy |-> busy, taskQueue |-> taskQueue, calls |-> calls]

SetPool(p) ==
    /\ idle' = p.idle
    /\ busy' = p.busy
    /\ taskQueue' = p.taskQueue
    /\ calls' = p.calls

\* What the caller of getWorker does once the promise resolves: loadModel goes
\* on to dispatch (in a continuation), a direct caller holds the slot.
GrantedPc(op) == IF op = "loadModel" THEN "gotWorker" ELSE "holding"

Grant(cs, c, workerId, how) ==
    [cs EXCEPT ![c].slot = workerId, ![c].via = how, ![c].pc = GrantedPc(cs[c].op)]

\* getWorker that reads the first idle slot without removing it.
GetWorkerKeepsIdle(p, c) ==
    IF Len(p.idle) > 0
    THEN LET worker == Head(p.idle)
         IN  [idle |-> p.idle,
              busy |-> p.busy \cup {worker},
              taskQueue |-> p.taskQueue,
              calls |-> Grant(p.calls, c, worker, "idle")]
    ELSE [idle |-> p.idle,
          busy |-> p.busy,
          taskQueue |-> Append(p.taskQueue, c),
          calls |-> [p.calls EXCEPT ![c].pc = "waiting"]]

\* getWorker throws: the element shifted from idle is undefined, and reading
\* worker.id is a TypeError.
GetWorkerThrows(p) == Len(p.idle) > 0 /\ Head(p.idle) = Undefined

\* getWorker, called by c.
GetWorker(p, c) ==
    IF Len(p.idle) > 0
    THEN LET worker == Head(p.idle)
         IN  IF worker = Undefined
             THEN [idle |-> Tail(p.idle),
                   busy |-> p.busy,
                   taskQueue |-> p.taskQueue,
                   calls |-> [p.calls EXCEPT ![c] = FreshCall]]
             ELSE [idle |-> Tail(p.idle),
                   busy |-> p.busy \cup {worker},
                   taskQueue |-> p.taskQueue,
                   calls |-> Grant(p.calls, c, worker, "idle")]
    ELSE [idle |-> p.idle,
          busy |-> p.busy,
          taskQueue |-> Append(p.taskQueue, c),
          calls |-> [p.calls EXCEPT ![c].pc = "waiting"]]

\* releaseWorker that takes the newest waiter (pop) instead of the oldest.
ReleaseWorkerNewest(p, workerId) ==
    IF workerId \notin p.busy
    THEN p
    ELSE IF Len(p.taskQueue) > 0
         THEN LET nextTask == p.taskQueue[Len(p.taskQueue)]
              IN  [idle |-> p.idle,
                   busy |-> (p.busy \ {workerId}) \cup {workerId},
                   taskQueue |-> SubSeq(p.taskQueue, 1, Len(p.taskQueue) - 1),
                   calls |-> Grant(p.calls, nextTask, workerId, "release")]
         ELSE [idle |-> Append(p.idle, workerId),
               busy |-> p.busy \ {workerId},
               taskQueue |-> p.taskQueue,
               calls |-> p.calls]

\* releaseWorker without the test that the slot is busy.
ReleaseWorkerUnguarded(p, workerId) ==
    IF Len(p.taskQueue) > 0
    THEN LET nextTask == Head(p.taskQueue)
         IN  [idle |-> p.idle,
              busy |-> p.busy \cup {workerId},
              taskQueue |-> Tail(p.taskQueue),
              calls |-> Grant(p.calls, nextTask, workerId, "release")]
    ELSE [idle |-> Append(p.idle, workerId),
          busy |-> p.busy \ {workerId},
          taskQueue |-> p.taskQueue,
          calls |-> p.calls]

\* releaseWorker that returns the slot to the idle set and leaves it busy.
ReleaseWorkerKeepsBusy(p, workerId) ==
    IF workerId \notin p.busy
    THEN p
    ELSE IF Len(p.taskQueue) > 0
         THEN LET nextTask == Head(p.taskQueue)
              IN  [idle |-> p.idle,
                   busy |-> p.busy,
                   taskQueue |-> Tail(p.taskQueue),
                   calls |-> Grant(p.calls, nextTask, workerId, "release")]
         ELSE [idle |-> Append(p.idle, workerId),
               busy |-> p.busy,
               taskQueue |-> p.taskQueue,
               calls |-> p.calls]

\* releaseWorker that parks the slot in the idle set whether or not a caller
\* is waiting.
ReleaseWorkerParks(p, workerId) ==
    IF workerId \notin p.busy
    THEN p
    ELSE [idle |-> Append(p.idle, workerId),
          busy |-> p.busy \ {workerId},
          taskQueue |-> p.taskQueue,
          calls |-> p.calls]

\* releaseWorker(workerId).
ReleaseWorker(p, workerId) ==
    IF workerId \notin p.busy
    THEN p
    ELSE IF Len(p.taskQueue) > 0
         THEN LET nextTask == Head(p.taskQueue)
              IN  [idle |-> p.idle,
                   busy |-> (p.busy \ {workerId}) \cup {workerId},
                   taskQueue |-> Tail(p.taskQueue),
                   calls |-> Grant(p.calls, nextTask, workerId, "release")]
         ELSE [idle |-> Append(p.idle, workerId),
               busy |-> p.busy \ {workerId},
               taskQueue |-> p.taskQueue,
               calls |-> p.calls]

\* The callers that have been given slot s and have not released it.
Holders(s) == {c \in Calls : calls[c].slot = s /\
                  calls[c].pc \in {"gotWorker", "awaiting", "resumed", "holding"} /\
                  calls[c].op \in {"getWorker", "loadModel"}}

\* The callers that hold a handle on slot s (getWorker or loadModel returned it).
HandleHolders(s) == {c \in Calls : calls[c].slot = s /\ calls[c].pc = "holding"}

\* A call slot can be reused once its call is over and no unloadModel in
\* progress was issued by it.
InProgress(c) == calls[c].pc # "done"
FreeCalls == {c \in Calls : ~InProgress(c) /\
                 \A d \in Calls : InProgress(d) => c \notin calls[d].owner}
IsNext(c, limit) == c \in FreeCalls /\ c <= limit /\ \A d \in FreeCalls : c <= d

\* Continuations pending on the orchestrating side.
PendingContinuations == {c \in Calls : calls[c].pc \in {"gotWorker", "resumed"}}

\* Correlation ids that loadModel calls will still take.
Reserved == Cardinality({c \in Calls : calls[c].op = "loadModel" /\
                            calls[c].pc \in {"waiting", "gotWorker"}})
CanDispatch == nextCallbackId + Reserved <= MaxCallbackId

\* The message posted by sendWorkerMessage.
Request(type, id, modelId) == [type |-> type, id |-> id, modelId |-> modelId]

\* sendWorkerMessage(worker, type, data), called by c.  A message posted to
\* a terminated unit is discarded.
SendWorkerMessage(c, worker, type, modelId) ==
    LET callbackId == nextCallbackId
    IN  /\ nextCallbackId' = nextCallbackId + 1
        /\ callbacks' = [i \in DOMAIN callbacks \cup {callbackId} |->
                           IF i = callbackId THEN c ELSE callbacks[i]]
        /\ units' = IF worker \in Range(workers)
                     THEN [units EXCEPT ![worker].inbox =
                              Append(@, Request(type, callbackId, modelId))]
                     ELSE units

\* What onmessage does to the call whose continuation it settles.
Settle(cs, c, msg) ==
    [cs EXCEPT ![c].pc = "resumed",
               ![c].settle = IF msg.error THEN "rejected" ELSE "resolved",
               ![c].payload = IF msg.error THEN "error"
                              ELSE IF msg.ok THEN "ok" ELSE "fail"]

\* onmessage that settles the continuation and leaves its entry in the table.
OnMessageKeepsEntry(cbs, cs, msg) ==
    IF msg.id \in DOMAIN cbs
    THEN [callbacks |-> cbs, calls |-> Settle(cs, cbs[msg.id], msg), settles |-> {msg.id}]
    ELSE [callbacks |-> cbs, calls |-> cs, settles |-> {}]

\* onmessage that, on an error, rejects every pending continuation.
OnMessageRejectsAll(cbs, cs, msg) ==
    IF msg.id \in DOMAIN cbs
    THEN IF msg.error
         THEN [callbacks |-> <<>>,
               calls |-> [c \in Calls |->
                            IF \E i \in DOMAIN cbs : cbs[i] = c
                            THEN Settle(cs, c, msg)[c] ELSE cs[c]],
               settles |-> DOMAIN cbs]
         ELSE [callbacks |-> [i \in DOMAIN cbs \ {msg.id} |-> cbs[i]],
               calls |-> Settle(cs, cbs[msg.id], msg),
               settles |-> {msg.id}]
    ELSE [callbacks |-> cbs, calls |-> cs, settles |-> {}]

\* worker.onmessage of the pool, for a response message msg = [id, error, ok]:
\* the continuation registered under msg.id is rejected or resolved and the
\* entry deleted; a message with no entry is dropped.
OnMessage(cbs, cs, msg) ==
    IF msg.id \in DOMAIN cbs
    THEN [callbacks |-> [i \in DOMAIN cbs \ {msg.id} |-> cbs[i]],
          calls |-> Settle(cs, cbs[msg.id], msg),
          settles |-> {msg.id}]
    ELSE [callbacks |-> cbs, calls |-> cs, settles |-> {}]

\* ------------------------------------------------------ pool: client calls
\* A direct getWorker() call.
CallGetWorker(c) ==
    /\ IsNext(c, MaxCallers)
    /\ SetPool(GetWorker([Pool EXCEPT !.calls[c] =
                             [FreshCall EXCEPT !.op = "getWorker"]], c))
    /\ ret' = IF GetWorkerThrows(Pool)
              THEN Return("getWorker", NoWorker, FALSE, "none", "none", "threw")
              ELSE NoReturn
    /\ UNCHANGED <<chatVars, storeVars, workers, progressHandler, size, callbacks, nextCallbackId, units, settled>>

\* A direct releaseWorker(id) call by the caller holding the slot.
CallReleaseWorker(c) ==
    /\ calls[c].op = "getWorker"
    /\ calls[c].pc = "holding"
    /\ SetPool(ReleaseWorker([Pool EXCEPT !.calls[c] = FreshCall], calls[c].slot))
    /\ ret' = NoReturn
    /\ UNCHANGED <<chatVars, storeVars, workers, progressHandler, size, callbacks, nextCallbackId, units, settled>>

\* A direct releaseWorker(workerId) call with any id: of a busy slot, of a
\* slot that was released before, or of no slot.  For an id that is not busy
\* it logs a warning and returns.
CallReleaseWorkerById(workerId) ==
    /\ SetPool(ReleaseWorker(Pool, workerId))
    /\ ret' = Return("releaseWorker", workerId, FALSE, "none", "none",
                     IF workerId \in busy THEN "none" ELSE "warned")
    /\ UNCHANGED <<chatVars, storeVars, workers, progressHandler, size, callbacks, nextCallbackId, units, settled>>

\* loadModel(modelId): up to `await this.getWorker()`.
CallLoadModel(c, m) ==
    /\ IsNext(c, MaxCalls)
    /\ CanDispatch
    /\ SetPool(GetWorker([Pool EXCEPT !.calls[c] =
                             [FreshCall EXCEPT !.op = "loadModel", !.arg = m]], c))
    /\ ret' = IF GetWorkerThrows(Pool)
              THEN Return("loadModel", NoWorker, FALSE, "none", "none", "threw")
              ELSE NoReturn
    /\ UNCHANGED <<chatVars, storeVars, workers, progressHandler, size, callbacks, nextCallbackId, units, settled>>

\* loadModel: the dispatch after getWorker resolved.
LoadModelDispatch(c) ==
    /\ calls[c].op = "loadModel"
    /\ calls[c].pc = "gotWorker"
    /\ SendWorkerMessage(c, calls[c].slot, "loadModel", calls[c].arg)
    /\ calls' = [calls EXCEPT ![c].pc = "awaiting"]
    /\ ret' = NoReturn
    /\ UNCHANGED <<chatVars, storeVars, workers, progressHandler, size, idle, busy, taskQueue, settled>>

\* The success flag of the object loadModel returns when the promise resolved:
\* { ...result, workerId: worker.id, success: true }.
LoadModelSuccess(payload) == "ok"

\* loadModel: after the await, the try branch or the catch branch.
LoadModelReturn(c) ==
    /\ calls[c].op = "loadModel"
    /\ calls[c].pc = "resumed"
    /\ IF calls[c].settle = "resolved"
       THEN /\ calls' = [calls EXCEPT ![c].pc = "holding"]
            /\ ret' = Return("loadModel", NoWorker, TRUE, "resolved", calls[c].payload,
                             LoadModelSuccess(calls[c].payload))
            /\ UNCHANGED <<idle, busy, taskQueue>>
       ELSE /\ SetPool(ReleaseWorker([Pool EXCEPT !.calls[c] = FreshCall], calls[c].slot))
            /\ ret' = Return("loadModel", NoWorker, TRUE, "rejected", calls[c].payload,
                             "fail")
    /\ UNCHANGED <<chatVars, storeVars, workers, progressHandler, size, callbacks, nextCallbackId, units, settled>>

\* generateText / chatCompletion(workerId, ...): up to the await.
CallInference(c, op, workerId) ==
    /\ IsNext(c, MaxCalls)
    /\ IF workerId \notin busy
       THEN /\ ret' = Return(op, workerId, FALSE, "none", "none", "threw")
            /\ UNCHANGED <<callbacks, nextCallbackId, units, calls>>
       ELSE /\ CanDispatch
            /\ SendWorkerMessage(c, workerId, op, NoModel)
            /\ calls' = [calls EXCEPT ![c] = [FreshCall EXCEPT !.op = op, !.arg = workerId,
                                                              !.pc = "awaiting"]]
            /\ ret' = NoReturn
    /\ UNCHANGED <<chatVars, storeVars, workers, progressHandler, size, idle, busy, taskQueue, settled>>

CallGenerateText(c, workerId) == CallInference(c, "generateText", workerId)

CallChatCompletion(c, workerId) == CallInference(c, "chatCompletion", workerId)

\* generateText / chatCompletion without the catch: a rejection of the
\* awaited promise leaves the method.
InferenceReturnRethrows(c) ==
    /\ calls[c].op \in {"generateText", "chatCompletion"}
    /\ calls[c].pc = "resumed"
    /\ calls' = [calls EXCEPT ![c] = FreshCall]
    /\ ret' = Return(calls[c].op, calls[c].arg, TRUE, calls[c].settle, calls[c].payload,
                     IF calls[c].settle = "resolved" THEN calls[c].payload ELSE "threw")
    /\ UNCHANGED <<chatVars, storeVars, workers, progressHandler, size, idle, busy, taskQueue, callbacks, nextCallbackId, units, settled>>

\* generateText / chatCompletion: after the await.
InferenceReturn(c) ==
    /\ calls[c].op \in {"generateText", "chatCompletion"}
    /\ calls[c].pc = "resumed"
    /\ calls' = [calls EXCEPT ![c] = FreshCall]
    /\ ret' = Return(calls[c].op, calls[c].arg, TRUE, calls[c].settle, calls[c].payload,
                     IF calls[c].settle = "resolved" THEN calls[c].payload ELSE "fail")
    /\ UNCHANGED <<chatVars, storeVars, workers, progressHandler, size, idle, busy, taskQueue, callbacks, nextCallbackId, units, settled>>

\* The callers of unloadModel give up their handle on the slot.
DropHandles(cs, hs, workerId) ==
    [h \in Calls |-> IF h \in hs /\ cs[h].pc = "holding" /\ cs[h].slot = workerId
                     THEN FreshCall
                     ELSE cs[h]]

\* unloadModel(workerId): up to the await.  It is called with an id that is
\* not busy, or by the callers holding a handle on the slot.
CallUnloadModel(c, workerId) ==
    /\ IsNext(c, MaxCalls)
    /\ IF workerId \notin busy
       THEN /\ calls' = DropHandles(calls, HandleHolders(workerId), workerId)
            /\ ret' = Return("unloadModel", workerId, FALSE, "none", "none", "false")
            /\ UNCHANGED <<callbacks, nextCallbackId, units>>
       ELSE /\ HandleHolders(workerId) # {}
            /\ CanDispatch
            /\ SendWorkerMessage(c, workerId, "unloadModel", NoModel)
            /\ calls' = [calls EXCEPT ![c] =
                            [FreshCall EXCEPT !.op = "unloadModel", !.arg = workerId,
                                              !.owner = HandleHolders(workerId),
                                              !.pc = "awaiting"]]
            /\ ret' = NoReturn
    /\ UNCHANGED <<chatVars, storeVars, workers, progressHandler, size, idle, busy, taskQueue, settled>>

\* What unloadModel returns: true from the try branch, false from the catch.
UnloadModelResult(settle, payload) == IF settle = "resolved" THEN "true" ELSE "false"

\* unloadModel that releases the slot only when the unit reported success.
UnloadModelReturnOnSuccessOnly(c) ==
    /\ calls[c].op = "unloadModel"
    /\ calls[c].pc = "resumed"
    /\ LET p == [Pool EXCEPT !.calls =
                    [DropHandles(calls, calls[c].owner, calls[c].arg) EXCEPT ![c] = FreshCall]]
       IN  SetPool(IF calls[c].payload = "ok" THEN ReleaseWorker(p, calls[c].arg) ELSE p)
    /\ ret' = Return("unloadModel", calls[c].arg, TRUE, calls[c].settle, calls[c].payload,
                     UnloadModelResult(calls[c].settle, calls[c].payload))
    /\ UNCHANGED <<chatVars, storeVars, workers, progressHandler, size, callbacks, nextCallbackId, units, settled>>

\* unloadModel: after the await; both branches call releaseWorker(workerId).
UnloadModelReturn(c) ==
    /\ calls[c].op = "unloadModel"
    /\ calls[c].pc = "resumed"
    /\ SetPool(ReleaseWorker(
          [Pool EXCEPT !.calls =
              [DropHandles(calls, calls[c].owner, calls[c].arg) EXCEPT ![c] = FreshCall]],
          calls[c].arg))
    /\ ret' = Return("unloadModel", calls[c].arg, TRUE, calls[c].settle, calls[c].payload,
                     UnloadModelResult(calls[c].settle, calls[c].payload))
    /\ UNCHANGED <<chatVars, storeVars, workers, progressHandler, size, callbacks, nextCallbackId, units, settled>>

\* onmessage: type === 'progress' && this.progressHandler.
IsHandledProgress(msg, handler) == msg.type = "progress" /\ handler # NoHandler

\* A message event of unit u on the orchestrating side (a macrotask).  A
\* progress message goes to the progress handler, if one is installed, and
\* the event is over; any other message goes to the callback table.
Deliver(u) ==
    /\ PendingContinuations = {}
    /\ Len(units[u].outbox) > 0
    /\ LET msg == Head(units[u].outbox)
           r == IF IsHandledProgress(msg, progressHandler)
                THEN [callbacks |-> callbacks, calls |-> calls, settles |-> {}]
                ELSE OnMessage(callbacks, calls, msg)
       IN  /\ callbacks' = r.callbacks
           /\ calls' = r.calls
           /\ settled' = [i \in CallbackIds |->
                             IF i \in r.settles THEN settled[i] + 1 ELSE settled[i]]
           /\ ret' = IF IsHandledProgress(msg, progressHandler)
                     THEN Return("progressHandler", progressHandler, FALSE, "none", "none",
                                 "none")
                     ELSE NoReturn
    /\ units' = [units EXCEPT ![u].outbox = Tail(@)]
    /\ UNCHANGED <<chatVars, storeVars, workers, progressHandler, size, idle, busy, taskQueue, nextCallbackId>>

\* setProgressHandler that keeps a handler that is already installed.
SetProgressHandlerKeepsFirst(handler) ==
    /\ progressHandler' = IF progressHandler = NoHandler THEN handler ELSE progressHandler
    /\ ret' = Return("setProgressHandler", handler, FALSE, "none", "none", "none")
    /\ UNCHANGED <<chatVars, storeVars, workers, size, idle, busy, taskQueue, callbacks, nextCallbackId, calls, units, settled>>

\* setProgressHandler(handler).
SetProgressHandler(handler) ==
    /\ progressHandler' = handler
    /\ ret' = Return("setProgressHandler", handler, FALSE, "none", "none", "none")
    /\ UNCHANGED <<chatVars, storeVars, workers, size, idle, busy, taskQueue, callbacks, nextCallbackId, calls, units, settled>>

\* terminate() that leaves the callback table as it is.
TerminateKeepsCallbacks ==
    /\ workers' = <<>>
    /\ idle' = <<>>
    /\ busy' = {}
    /\ taskQueue' = <<>>
    /\ progressHandler' = NoHandler
    /\ units' = [u \in DOMAIN units |-> [FreshUnit EXCEPT !.outbox = units[u].outbox]]
    /\ ret' = Return("terminate", NoWorker, FALSE, "none", "none", "none")
    /\ UNCHANGED <<chatVars, storeVars, size, callbacks, nextCallbackId, calls, settled>>

\* terminate() that rejects the continuations it finds in the callback table
\* before clearing it.
TerminateRejectsPending ==
    /\ workers' = <<>>
    /\ idle' = <<>>
    /\ busy' = {}
    /\ taskQueue' = <<>>
    /\ callbacks' = <<>>
    /\ progressHandler' = NoHandler
    /\ units' = [u \in DOMAIN units |-> [FreshUnit EXCEPT !.outbox = units[u].outbox]]
    /\ calls' = [c \in Calls |->
                    IF \E i \in DOMAIN callbacks : callbacks[i] = c
                    THEN [calls[c] EXCEPT !.pc = "resumed", !.settle = "rejected",
                                          !.payload = "error"]
                    ELSE calls[c]]
    /\ ret' = Return("terminate", NoWorker, FALSE, "none", "none", "none")
    /\ UNCHANGED <<chatVars, storeVars, size, nextCallbackId, settled>>

\* terminate(): every unit is stopped (what it was doing and what was posted
\* to it is lost; what it had posted may still arrive) and the bookkeeping
\* is cleared.
Terminate ==
    /\ workers' = <<>>
    /\ idle' = <<>>
    /\ busy' = {}
    /\ taskQueue' = <<>>
    /\ callbacks' = <<>>
    /\ progressHandler' = NoHandler
    /\ units' = [u \in DOMAIN units |-> [FreshUnit EXCEPT !.outbox = units[u].outbox]]
    /\ ret' = Return("terminate", NoWorker, FALSE, "none", "none", "none")
    /\ UNCHANGED <<chatVars, storeVars, size, nextCallbackId, calls, settled>>

\* -------------------------------------------------------- execution unit
\* { type, id, result } or { type, id, error }: the answer to request req.
Response(req, error, ok) ==
    [type |-> req.type, id |-> req.id, error |-> error, ok |-> ok,
     modelId |-> IF error THEN NoModel ELSE req.modelId]

\* { type: 'progress', modelId, progress }: it carries no id and no error.
ProgressMessage(modelId) ==
    [type |-> "progress", id |-> NoCallbackId, error |-> FALSE, ok |-> FALSE,
     modelId |-> modelId]

\* workerScope.postMessage of a result or of an error.
Post(unit, req, error, ok) == [unit EXCEPT !.outbox = Append(@, Response(req, error, ok))]

\* A handler whose loadModel creates an engine also for the model the unit
\* holds.
UnitHandleReloads(unit, req) ==
    CASE req.type = "loadModel" ->
            IF unit.isLoading
            THEN Post(unit, req, TRUE, FALSE)
            ELSE [unit EXCEPT !.isLoading = TRUE,
                              !.modelId = req.modelId,
                              !.pending = @ \cup {req}]
      [] req.type \in {"generateText", "chatCompletion"} ->
            IF unit.engine = NoModel
            THEN Post(unit, req, TRUE, FALSE)
            ELSE [unit EXCEPT !.pending = @ \cup {req}]
      [] req.type = "unloadModel" ->
            IF unit.engine = NoModel
            THEN Post(unit, req, FALSE, TRUE)
            ELSE [unit EXCEPT !.pending = @ \cup {req}]

\* workerScope.onmessage up to the first suspension, for request req.
UnitHandle(unit, req) ==
    CASE req.type = "loadModel" ->
            IF unit.isLoading
            THEN Post(unit, req, TRUE, FALSE)           \* throws 'Already loading a model'
            ELSE IF unit.engine # NoModel /\ unit.modelId = req.modelId
                 THEN Post(unit, req, FALSE, TRUE)      \* 'Model already loaded'
                 ELSE [unit EXCEPT !.isLoading = TRUE,
                                   !.modelId = req.modelId,
                                   !.pending = @ \cup {req}]
      [] req.type \in {"generateText", "chatCompletion"} ->
            IF unit.engine = NoModel
            THEN Post(unit, req, TRUE, FALSE)           \* throws 'No model loaded'
            ELSE [unit EXCEPT !.pending = @ \cup {req}]
      [] req.type = "unloadModel" ->
            IF unit.engine = NoModel
            THEN Post(unit, req, FALSE, TRUE)           \* returns true
            ELSE [unit EXCEPT !.pending = @ \cup {req}]

\* The rest of the handler of req once the model runtime call has finished,
\* with success (ok) or by throwing.
UnitResume(unit, req, ok) ==
    CASE req.type = "loadModel" ->
            Post([unit EXCEPT !.engine = IF ok THEN req.modelId ELSE NoModel,
                              !.modelId = IF ok THEN @ ELSE NoModel,
                              !.isLoading = FALSE,
                              !.pending = @ \ {req}],
                 req, FALSE, ok)
      [] req.type \in {"generateText", "chatCompletion"} ->
            Post([unit EXCEPT !.pending = @ \ {req}], req, FALSE, ok)
      [] req.type = "unloadModel" ->
            Post([unit EXCEPT !.engine = NoModel,
                              !.modelId = NoModel,
                              !.pending = @ \ {req}],
                 req, FALSE, ok)

\* Unit u takes the next message posted to it.
UnitReceive(u) ==
    /\ Len(units[u].inbox) > 0
    /\ units' = [units EXCEPT ![u] =
                    UnitHandle([@ EXCEPT !.inbox = Tail(@)], Head(units[u].inbox))]
    /\ ret' = NoReturn
    /\ UNCHANGED <<chatVars, storeVars, workers, progressHandler, size, idle, busy, taskQueue, callbacks, nextCallbackId, calls, settled>>

\* The model runtime finishes the call made for req.
UnitFinish(u, req, ok) ==
    /\ req \in units[u].pending
    /\ units' = [units EXCEPT ![u] = UnitResume(@, req, ok)]
    /\ ret' = NoReturn
    /\ UNCHANGED <<chatVars, storeVars, workers, progressHandler, size, idle, busy, taskQueue, callbacks, nextCallbackId, calls, settled>>

\* String.prototype.trim: the text without its leading and trailing white
\* space.
RECURSIVE TrimStart(_)
TrimStart(text) ==
    IF text # <<>> /\ Head(text) = Space THEN TrimStart(Tail(text)) ELSE text
RECURSIVE TrimEnd(_)
TrimEnd(text) ==
    IF text # <<>> /\ text[Len(text)] = Space
    THEN TrimEnd(SubSeq(text, 1, Len(text) - 1))
    ELSE text
Trim(text) == TrimEnd(TrimStart(text))

\* A string option in a condition: undefined is falsy, as is the empty
\* string.
Truthy(option) == option # NotPassed /\ Value(option) # <<>>

\* chatMessages that leaves a system message of the caller as it is.
ChatMessagesKeepsSystem(messages, systemPrompt) ==
    IF Truthy(systemPrompt) /\ Truthy(Passed(Trim(Value(systemPrompt))))
    THEN IF \E k \in DOMAIN messages : messages[k].role = "system"
         THEN messages
         ELSE <<Message("system", Value(systemPrompt))>> \o messages
    ELSE messages

\* chatCompletion (unit): the chatMessages passed to engine.chatCompletion.
ChatMessages(messages, systemPrompt) ==
    IF Truthy(systemPrompt) /\ Truthy(Passed(Trim(Value(systemPrompt))))
    THEN LET hasSystemMessage == \E k \in DOMAIN messages : messages[k].role = "system"
         IN  IF ~hasSystemMessage
             THEN <<Message("system", Value(systemPrompt))>> \o messages
             ELSE [k \in DOMAIN messages |->
                      IF messages[k].role = "system"
                      THEN Message("system", Value(systemPrompt))
                      ELSE messages[k]]
    ELSE messages

\* chatCompletion(messages, {systemPrompt}) of a unit that holds an engine:
\* up to `await engine.chatCompletion({ messages: chatMessages, ... })`.
UnitChatCompletion ==
    /\ chat.pc = "called"
    /\ chat' = [chat EXCEPT !.pc = "awaiting",
                            !.passed = ChatMessages(chat.messages, chat.systemPrompt)]
    /\ ret' = NoReturn
    /\ UNCHANGED <<poolVars, storeVars, gen>>

\* The model runtime answers and chatCompletion returns { success: true,
\* ...result }, or { success: false, error } when the runtime throws.
UnitChatCompletionReturn(ok) ==
    /\ chat.pc = "awaiting"
    /\ chat' = [chat EXCEPT !.pc = "done"]
    /\ ret' = Return("chatCompletion", NoWorker, FALSE, "none", "none",
                     IF ok THEN "ok" ELSE "fail")
    /\ UNCHANGED <<poolVars, storeVars, gen>>

\* generateText (unit): the method of the engine it calls, found by
\* `typeof engine.generate === 'function'`, else
\* `typeof engine.completion === 'function'`, else it throws 'Model does not
\* support text generation'.
GenerateTextMethod(handle) ==
    IF "generate" \in handle THEN "generate"
    ELSE IF "completion" \in handle THEN "completion"
    ELSE NoMethod

\* chatCompletion (unit): `typeof engine.chatCompletion === 'function'`, else
\* it throws 'Model does not support chat completion'.
ChatCompletionMethod(handle) ==
    IF "chatCompletion" \in handle THEN "chatCompletion" ELSE NoMethod

\* The unit serves the generation request gen with its engine: up to the
\* await of the method it found, or to its return of { success: false, error }
\* when it found none (the throw is caught in the function).
UnitGenerate ==
    /\ gen.pc = "called"
    /\ LET method == IF gen.type = "generateText"
                      THEN GenerateTextMethod(gen.handle)
                      ELSE ChatCompletionMethod(gen.handle)
       IN  IF method = NoMethod
           THEN /\ gen' = [gen EXCEPT !.pc = "done"]
                /\ ret' = Return(gen.type, NoWorker, FALSE, "none", "none", "fail")
           ELSE /\ gen' = [gen EXCEPT !.pc = "awaiting", !.invoked = method,
                                       !.passed = gen.prompt]
                /\ ret' = NoReturn
    /\ UNCHANGED <<poolVars, storeVars, chat>>

\* The invoked method finishes and the function returns { success: true, ... },
\* or { success: false, error } when the method threw.
UnitGenerateReturn(ok) ==
    /\ gen.pc = "awaiting"
    /\ gen' = [gen EXCEPT !.pc = "done"]
    /\ ret' = Return(gen.type, NoWorker, FALSE, "none", "none",
                     IF ok THEN "ok" ELSE "fail")
    /\ UNCHANGED <<poolVars, storeVars, chat>>

\* A message posted to unit u by the thread that created it: a request of
\* any type, with the next correlation id.
PostMessage(u, type, m) ==
    /\ nextCallbackId <= MaxPosted
    /\ nextCallbackId' = nextCallbackId + 1
    /\ units' = [units EXCEPT ![u].inbox = Append(@, Request(type, nextCallbackId, m))]
    /\ ret' = NoReturn
    /\ UNCHANGED <<chatVars, storeVars, workers, progressHandler, size, idle, busy, taskQueue, callbacks, calls, settled>>

\* The progress callback of the model runtime, called while unit u loads a
\* model: it posts a progress message.
UnitProgress(u) ==
    /\ \E req \in units[u].pending :
          /\ req.type = "loadModel"
          /\ units' = [units EXCEPT ![u].outbox = Append(@, ProgressMessage(req.modelId))]
    /\ Cardinality({k \in 1..Len(units[u].outbox) :
                       units[u].outbox[k].type = "progress"}) < MaxProgress
    /\ ret' = NoReturn
    /\ UNCHANGED <<chatVars, storeVars, workers, progressHandler, size, idle, busy, taskQueue, callbacks, nextCallbackId, calls, settled>>

\* ------------------------------------------------------------ chunk store
\* Math.ceil(a / b) for a >= 0 and b > 0.
Ceil(a, b) == (a + b - 1) \div b

\* The number of chunks computed with the floor of the quotient.
NumChunksFloor(contentLength, chunkSize) == contentLength \div chunkSize

\* numChunks = Math.ceil(contentLength / chunkSize)
NumChunks(contentLength, chunkSize) == Ceil(contentLength, chunkSize)

\* The record put by downloadModelInChunks: { id, url, size, chunkSize, chunks }.
ModelRecord(url, contentLength, chunkSize) ==
    [url |-> url, size |-> contentLength, chunkSize |-> chunkSize,
     chunks |-> Ceil(contentLength, chunkSize)]

\* The record put by the load flow of the user interface: { id, name, url }.
UIModelRecord(url) ==
    [url |-> url, size |-> Absent, chunkSize |-> Absent, chunks |-> Absent]

\* The model_url of model m in the list of available models.
ModelUrl(m) == Min(m, NumUrls)

\* db.put('models', record)
PutModel(ms, m, record) ==
    [k \in DOMAIN ms \cup {m} |-> IF k = m THEN record ELSE ms[k]]

\* The indices of the chunk records of model m.
ChunkIndices(cs, m) == {ch[2] : ch \in {x \in cs : x[1] = m}}

\* getModelChunk that finds no chunk record.
GetModelChunkNever(cs, m, i) == FALSE

\* getModelChunk(modelId, index) is not null.
GetModelChunk(cs, m, i) == <<m, i>> \in cs

\* isModelDownloadComplete(modelId), on one state of the store: with a
\* record that has no chunks field the loop condition i < undefined is false.
IsModelDownloadComplete(ms, cs, m) ==
    IF m \notin DOMAIN ms
    THEN FALSE
    ELSE LET n == IF ms[m].chunks = Absent THEN 0 ELSE ms[m].chunks
         IN  \A i \in 0..(n - 1) : GetModelChunk(cs, m, i)

\* A network request to url: the HEAD request for the size, or the request
\* of the byte range start-end for the chunk index.
HeadRequest(url) ==
    [kind |-> "HEAD", url |-> url, index |-> Absent, start |-> Absent, end |-> Absent]
RangeRequest(url, i, chunkSize, contentLength) ==
    [kind |-> "range", url |-> url, index |-> i, start |-> i * chunkSize,
     end |-> Min(contentLength, i * chunkSize + chunkSize - 1)]

\* A progress event passed to the progressCallback: the phase and, for the
\* phases downloading and chunk_saved, the chunk number i + 1.
Progress(phase, chunk) == [phase |-> phase, chunk |-> chunk]

\* The indices of the range requests of run r, in the order of issue.
RECURSIVE RangeIndices(_)
RangeIndices(log) ==
    IF log = <<>>
    THEN <<>>
    ELSE IF Head(log).kind = "range"
         THEN <<Head(log).index>> \o RangeIndices(Tail(log))
         ELSE RangeIndices(Tail(log))

\* Run ids are taken in order.
IsNextRun(r) == runs[r].op = "none" /\ \A q \in Runs : runs[q].op = "none" => r <= q
RunsInFlight == {r \in Runs : runs[r].pc # "done"}

\* What the methods of the chunk store and of the downloader return (ret):
\* op the method, arg the run (or the model id), res true, false or threw.
StoreReturn(op, arg, res) == Return(op, arg, FALSE, "none", "none", res)

\* The run throws: the catch block of downloadModelInChunks reports the
\* 'error' event and rethrows; the catch block of resumeModelDownload, which
\* catches a missing record, rethrows.
Throw(r) ==
    /\ runs' = [runs EXCEPT ![r].pc = "done"]
    /\ events' = [events EXCEPT ![r] = IF runs[r].pc = "resume"
                                       THEN @
                                       ELSE Append(@, Progress("error", Absent))]
    /\ ret' = StoreReturn(runs[r].op, r, "threw")

\* The top of the loop for index i, after the events in reported: the
\* 'downloading' event and the next check, or the 'complete' event and the
\* end of the run.
LoopOrReturn(r, i, reported) ==
    IF i < runs[r].numChunks
    THEN /\ runs' = [runs EXCEPT ![r].i = i, ![r].pc = "check"]
         /\ events' = [events EXCEPT ![r] =
                          @ \o reported \o <<Progress("downloading", i + 1)>>]
         /\ ret' = NoReturn
    ELSE /\ runs' = [runs EXCEPT ![r].i = i, ![r].pc = "done"]
         /\ events' = [events EXCEPT ![r] =
                          @ \o reported \o <<Progress("complete", Absent)>>]
         /\ ret' = StoreReturn(runs[r].op, r, "true")

\* downloadModelInChunks(url, modelId, {chunkSize}): up to the HEAD request.
CallDownloadModelInChunks(r, url, m, chunkSize) ==
    /\ IsNextRun(r)
    /\ runs' = [runs EXCEPT ![r] =
                   [FreshRun EXCEPT !.op = "downloadModelInChunks", !.pc = "head",
                                    !.url = url, !.modelId = m, !.passed = chunkSize,
                                    !.chunkSize = IF chunkSize = Absent
                                                  THEN DEFAULT_CHUNK_SIZE ELSE chunkSize,
                                    !.had = ChunkIndices(chunks, m)]]
    /\ net' = [net EXCEPT ![r] = Append(@, HeadRequest(url))]
    /\ ret' = NoReturn
    /\ UNCHANGED <<chatVars, poolVars, models, chunks, events, tx>>

\* resumeModelDownload(modelId, {chunkSize}): up to the read of the record.
CallResumeModelDownload(r, m, chunkSize) ==
    /\ IsNextRun(r)
    /\ runs' = [runs EXCEPT ![r] =
                   [FreshRun EXCEPT !.op = "resumeModelDownload", !.pc = "resume",
                                    !.modelId = m, !.passed = chunkSize,
                                    !.had = ChunkIndices(chunks, m)]]
    /\ ret' = NoReturn
    /\ UNCHANGED <<chatVars, poolVars, models, chunks, net, events, tx>>

\* A resume that, without a record, downloads from the model's listed url
\* with the chunk size it was given.
ResumeReadDownloadsAnyway(r) ==
    /\ runs[r].pc = "resume"
    /\ ~tx.open
    /\ LET m == runs[r].modelId
           url == IF m \in DOMAIN models THEN models[m].url ELSE ModelUrl(m)
       IN  /\ runs' = [runs EXCEPT ![r].pc = "head",
                                   ![r].url = url,
                                   ![r].chunkSize = IF runs[r].passed = Absent
                                                    THEN DEFAULT_CHUNK_SIZE
                                                    ELSE runs[r].passed]
           /\ net' = [net EXCEPT ![r] = Append(@, HeadRequest(url))]
    /\ ret' = NoReturn
    /\ UNCHANGED <<chatVars, poolVars, models, chunks, events, tx>>

\* resumeModelDownload: the record was read; without a record it throws,
\* otherwise it calls downloadModelInChunks(metadata.url, modelId,
\* {chunkSize: metadata.chunkSize, ...options}).
ResumeRead(r) ==
    /\ runs[r].pc = "resume"
    /\ ~tx.open
    /\ IF runs[r].modelId \notin DOMAIN models
       THEN /\ Throw(r)
            /\ UNCHANGED net
       ELSE LET metadata == models[runs[r].modelId]
                given == IF runs[r].passed # Absent THEN runs[r].passed
                                                    ELSE metadata.chunkSize
            IN  /\ runs' = [runs EXCEPT ![r].pc = "head",
                                        ![r].url = metadata.url,
                                        ![r].chunkSize = IF given = Absent
                                                         THEN DEFAULT_CHUNK_SIZE
                                                         ELSE given]
                /\ net' = [net EXCEPT ![r] = Append(@, HeadRequest(metadata.url))]
                /\ ret' = NoReturn
                /\ UNCHANGED events
    /\ UNCHANGED <<chatVars, poolVars, models, chunks, tx>>

\* The answer to the HEAD request: a status and a content-length (0 when the
\* header is missing).  A bad status or no length throws; otherwise
\* saveModelMetadata is called.
HeadResponse(r, ok, contentLength) ==
    /\ runs[r].pc = "head"
    /\ IF ~ok \/ contentLength = 0
       THEN Throw(r)
       ELSE /\ runs' = [runs EXCEPT ![r].pc = "saveMeta",
                                    ![r].contentLength = contentLength,
                                    ![r].numChunks =
                                        NumChunks(contentLength, runs[r].chunkSize)]
            /\ ret' = NoReturn
            /\ UNCHANGED events
    /\ UNCHANGED <<chatVars, poolVars, models, chunks, net, tx>>

\* A run that starts the loop without putting the record.
SaveMetadataSkipsPut(r) ==
    /\ runs[r].pc = "saveMeta"
    /\ ~tx.open
    /\ LoopOrReturn(r, 0, <<Progress("init", Absent)>>)
    /\ UNCHANGED <<chatVars, poolVars, models, chunks, net, tx>>

\* saveModelMetadata has put the record; the 'init' event is reported and
\* the loop starts.
SaveMetadata(r) ==
    /\ runs[r].pc = "saveMeta"
    /\ ~tx.open
    /\ models' = PutModel(models, runs[r].modelId,
                          ModelRecord(runs[r].url, runs[r].contentLength,
                                      runs[r].chunkSize))
    /\ LoopOrReturn(r, 0, <<Progress("init", Absent)>>)
    /\ UNCHANGED <<chatVars, poolVars, chunks, net, tx>>

\* A run that requests a missing chunk and goes on to the next index without
\* awaiting the answer.
CheckChunkFetchesAhead(r) ==
    /\ runs[r].pc = "check"
    /\ ~tx.open
    /\ IF GetModelChunk(chunks, runs[r].modelId, runs[r].i)
       THEN UNCHANGED net
       ELSE net' = [net EXCEPT ![r] =
                       Append(@, RangeRequest(runs[r].url, runs[r].i, runs[r].chunkSize,
                                              runs[r].contentLength))]
    /\ LoopOrReturn(r, runs[r].i + 1, <<>>)
    /\ UNCHANGED <<chatVars, poolVars, models, chunks, tx>>

\* getModelChunk(modelId, i) has answered: an existing chunk is skipped, a
\* missing one is requested from the network.
CheckChunk(r) ==
    /\ runs[r].pc = "check"
    /\ ~tx.open
    /\ IF GetModelChunk(chunks, runs[r].modelId, runs[r].i)
       THEN /\ LoopOrReturn(r, runs[r].i + 1, <<>>)
            /\ UNCHANGED net
       ELSE /\ runs' = [runs EXCEPT ![r].pc = "fetch"]
            /\ net' = [net EXCEPT ![r] =
                          Append(@, RangeRequest(runs[r].url, runs[r].i,
                                                 runs[r].chunkSize,
                                                 runs[r].contentLength))]
            /\ ret' = NoReturn
            /\ UNCHANGED events
    /\ UNCHANGED <<chatVars, poolVars, models, chunks, tx>>

\* A run that answers a bad status of a range request by requesting the
\* range again.
RangeResponseRetries(r, ok) ==
    /\ runs[r].pc = "fetch"
    /\ IF ok
       THEN /\ runs' = [runs EXCEPT ![r].pc = "save"]
            /\ UNCHANGED net
       ELSE /\ Len(net[r]) <= MaxFileSize + 1
            /\ net' = [net EXCEPT ![r] =
                          Append(@, RangeRequest(runs[r].url, runs[r].i,
                                                 runs[r].chunkSize,
                                                 runs[r].contentLength))]
            /\ UNCHANGED runs
    /\ ret' = NoReturn
    /\ UNCHANGED <<chatVars, poolVars, models, chunks, events, tx>>

\* The answer to the range request and its body: a bad status throws;
\* otherwise saveModelChunk is called.
RangeResponse(r, ok) ==
    /\ runs[r].pc = "fetch"
    /\ IF ok
       THEN /\ runs' = [runs EXCEPT ![r].pc = "save"]
            /\ ret' = NoReturn
            /\ UNCHANGED events
       ELSE Throw(r)
    /\ UNCHANGED <<chatVars, poolVars, models, chunks, net, tx>>

\* saveModelChunk has put the chunk record; the 'chunk_saved' event is
\* reported and the loop goes on.
SaveChunk(r) ==
    /\ runs[r].pc = "save"
    /\ ~tx.open
    /\ chunks' = chunks \cup {<<runs[r].modelId, runs[r].i>>}
    /\ LoopOrReturn(r, runs[r].i + 1, <<Progress("chunk_saved", runs[r].i + 1)>>)
    /\ UNCHANGED <<chatVars, poolVars, models, net, tx>>

\* A call of isModelDownloadComplete(modelId) whose reads see one state of
\* the store.
CallIsModelDownloadComplete(m) ==
    /\ ~tx.open
    /\ ret' = StoreReturn("isModelDownloadComplete", m,
                          IF IsModelDownloadComplete(models, chunks, m)
                          THEN "true" ELSE "false")
    /\ UNCHANGED <<chatVars, poolVars, storeVars>>

\* The download step of the user interface's loadModel, taken when the model
\* is not complete in the store: up to `await saveModelMetadata(...)`.
CallUILoadModel(r, m) ==
    /\ IsNextRun(r)
    /\ ~IsModelDownloadComplete(models, chunks, m)
    /\ runs' = [runs EXCEPT ![r] =
                   [FreshRun EXCEPT !.op = "downloadModelInChunks", !.pc = "uiSave",
                                    !.url = ModelUrl(m), !.modelId = m]]
    /\ ret' = NoReturn
    /\ UNCHANGED <<chatVars, poolVars, models, chunks, net, events, tx>>

\* The user interface's record was put; downloadModelInChunks is called
\* with no chunk size.
UISaveMetadata(r) ==
    /\ runs[r].pc = "uiSave"
    /\ ~tx.open
    /\ models' = PutModel(models, runs[r].modelId, UIModelRecord(runs[r].url))
    /\ runs' = [runs EXCEPT ![r].pc = "head",
                            ![r].chunkSize = DEFAULT_CHUNK_SIZE,
                            ![r].had = ChunkIndices(chunks, runs[r].modelId)]
    /\ net' = [net EXCEPT ![r] = Append(@, HeadRequest(runs[r].url))]
    /\ ret' = NoReturn
    /\ UNCHANGED <<chatVars, poolVars, chunks, events, tx>>

\* The elements of a set of numbers in ascending order.
RECURSIVE Ascending(_)
Ascending(S) ==
    IF S = {}
    THEN <<>>
    ELSE LET x == CHOOSE y \in S : \A z \in S : y <= z
         IN  <<x>> \o Ascending(S \ {x})

\* deleteModel(modelId): the transaction over 'models' and 'chunks' is opened
\* and the delete of the model record requested.  The transaction works on
\* its own view of the stores; other users of the stores wait for it.
CallDeleteModel(m) ==
    /\ ~tx.open
    /\ tx' = [open |-> TRUE, stage |-> "record", modelId |-> m, models |-> models,
              chunks |-> chunks, todo |-> <<>>]
    /\ ret' = NoReturn
    /\ UNCHANGED <<chatVars, poolVars, models, chunks, runs, net, events>>

\* The next request of the transaction has succeeded.
DeleteStep ==
    /\ tx.open
    /\ tx.stage # "commit"
    /\ tx' = CASE tx.stage = "record" ->
                    [tx EXCEPT !.models = [k \in DOMAIN tx.models \ {tx.modelId} |->
                                              tx.models[k]],
                               !.stage = "list"]
               [] tx.stage = "list" ->
                    LET found == Ascending(ChunkIndices(tx.chunks, tx.modelId))
                    IN  [tx EXCEPT !.todo = found,
                                   !.stage = IF found = <<>> THEN "commit" ELSE "chunks"]
               [] tx.stage = "chunks" ->
                    [tx EXCEPT !.chunks = @ \ {<<tx.modelId, Head(tx.todo)>>},
                               !.todo = Tail(@),
                               !.stage = IF Len(tx.todo) = 1 THEN "commit" ELSE "chunks"]
    /\ ret' = NoReturn
    /\ UNCHANGED <<chatVars, poolVars, models, chunks, runs, net, events>>

\* tx.done: the transaction commits and deleteModel returns true.
DeleteCommit ==
    /\ tx.open
    /\ tx.stage = "commit"
    /\ models' = tx.models
    /\ chunks' = tx.chunks
    /\ tx' = NoTx
    /\ ret' = StoreReturn("deleteModel", tx.modelId, "true")
    /\ UNCHANGED <<chatVars, poolVars, runs, net, events>>

\* A failing delete that leaves in the stores what it has done so far.
DeleteAbortKeepsPartial ==
    /\ tx.open
    /\ models' = tx.models
    /\ chunks' = tx.chunks
    /\ tx' = NoTx
    /\ ret' = StoreReturn("deleteModel", tx.modelId, "threw")
    /\ UNCHANGED <<chatVars, poolVars, runs, net, events>>

\* A request of the transaction fails, or the transaction is aborted: what
\* it has done is undone and deleteModel throws.
DeleteAbort ==
    /\ tx.open
    /\ tx' = NoTx
    /\ ret' = StoreReturn("deleteModel", tx.modelId, "threw")
    /\ UNCHANGED <<chatVars, poolVars, models, chunks, runs, net, events>>

\* ------------------------------------------------------- specifications
\* The pool used through loadModel, generateText, chatCompletion and
\* unloadModel, with its units.
Next ==
    \/ \E c \in Calls, m \in Models : CallLoadModel(c, m)
    \/ \E c \in Calls : LoadModelDispatch(c)
    \/ \E c \in Calls : LoadModelReturn(c)
    \/ \E c \in Calls, w \in SlotArgs : CallGenerateText(c, w)
    \/ \E c \in Calls, w \in SlotArgs : CallChatCompletion(c, w)
    \/ \E c \in Calls : InferenceReturn(c)
    \/ \E c \in Calls, w \in SlotArgs : CallUnloadModel(c, w)
    \/ \E c \in Calls : UnloadModelReturn(c)
    \/ \E u \in Slots : Deliver(u)
    \/ \E u \in Slots : UnitReceive(u)
    \/ \E u \in Slots, ok \in BOOLEAN : \E req \in units[u].pending : UnitFinish(u, req, ok)

Spec == Init /\ [][Next]_vars

\* The pool used through getWorker and releaseWorker alone: each caller
\* releases the slot it was given.
NextSlots ==
    \/ \E c \in Calls : CallGetWorker(c)
    \/ \E c \in Calls : CallReleaseWorker(c)

SpecSlots == Init /\ [][NextSlots]_vars

\* The chunked downloader: downloads and resumes, one run at a time.
NextDownload ==
    \/ \E r \in Runs, url \in Urls, m \in Models, c \in ChunkSizes \cup {Absent} :
          RunsInFlight = {} /\ CallDownloadModelInChunks(r, url, m, c)
    \/ \E r \in Runs, m \in Models, c \in ChunkSizes \cup {Absent} :
          RunsInFlight = {} /\ CallResumeModelDownload(r, m, c)
    \/ \E r \in Runs : ResumeRead(r)
    \/ \E r \in Runs, ok \in BOOLEAN, n \in FileSizes : HeadResponse(r, ok, n)
    \/ \E r \in Runs : SaveMetadata(r)
    \/ \E r \in Runs : CheckChunk(r)
    \/ \E r \in Runs, ok \in BOOLEAN : RangeResponse(r, ok)
    \/ \E r \in Runs : SaveChunk(r)
    \/ \E m \in Models : RunsInFlight = {} /\ CallIsModelDownloadComplete(m)

SpecDownload == InitStore /\ [][NextDownload]_vars

\* The chunked downloader with runs in flight at the same time: a download
\* or a resume is started whatever the other runs are doing.
NextConcurrent ==
    \/ \E r \in Runs, m \in Models, c \in ChunkSizes \cup {Absent} :
          CallDownloadModelInChunks(r, ModelUrl(m), m, c)
    \/ \E r \in Runs, m \in Models, c \in ChunkSizes \cup {Absent} :
          CallResumeModelDownload(r, m, c)
    \/ \E r \in Runs : ResumeRead(r)
    \/ \E r \in Runs, ok \in BOOLEAN, n \in FileSizes : HeadResponse(r, ok, n)
    \/ \E r \in Runs : SaveMetadata(r)
    \/ \E r \in Runs : CheckChunk(r)
    \/ \E r \in Runs, ok \in BOOLEAN : RangeResponse(r, ok)
    \/ \E r \in Runs : SaveChunk(r)

SpecConcurrent == InitStore /\ [][NextConcurrent]_vars

\* The chunk store with the downloader (one run at a time), the load flow of
\* the user interface and deleteModel.
NextStore ==
    \/ \E r \in Runs, m \in Models, c \in ChunkSizes \cup {Absent} :
          RunsInFlight = {} /\ CallDownloadModelInChunks(r, ModelUrl(m), m, c)
    \/ \E r \in Runs, m \in Models, c \in ChunkSizes \cup {Absent} :
          RunsInFlight = {} /\ CallResumeModelDownload(r, m, c)
    \/ \E r \in Runs, m \in Models : RunsInFlight = {} /\ CallUILoadModel(r, m)
    \/ \E r \in Runs : UISaveMetadata(r)
    \/ \E r \in Runs : ResumeRead(r)
    \/ \E r \in Runs, ok \in BOOLEAN, n \in FileSizes : HeadResponse(r, ok, n)
    \/ \E r \in Runs : SaveMetadata(r)
    \/ \E r \in Runs : CheckChunk(r)
    \/ \E r \in Runs, ok \in BOOLEAN : RangeResponse(r, ok)
    \/ \E r \in Runs : SaveChunk(r)
    \/ \E m \in Models : RunsInFlight = {} /\ CallIsModelDownloadComplete(m)
    \/ \E m \in Models : CallDeleteModel(m)
    \/ DeleteStep
    \/ DeleteCommit
    \/ DeleteAbort

SpecStore == InitStore /\ [][NextStore]_vars

\* getWorker and releaseWorker on a pool some of whose units could not be
\* created.
SpecConstruct == InitWithFailures /\ [][NextSlots]_vars

\* The pool used through loadModel and unloadModel alone, with its units.
NextLoad ==
    \/ \E c \in Calls, m \in Models : CallLoadModel(c, m)
    \/ \E c \in Calls : LoadModelDispatch(c)
    \/ \E c \in Calls : LoadModelReturn(c)
    \/ \E c \in Calls, w \in SlotArgs : CallUnloadModel(c, w)
    \/ \E c \in Calls : UnloadModelReturn(c)
    \/ \E u \in Slots : Deliver(u)
    \/ \E u \in Slots : UnitReceive(u)
    \/ \E u \in Slots, ok \in BOOLEAN : \E req \in units[u].pending : UnitFinish(u, req, ok)

\* The pool with terminate and with a progress handler.
NextTerminate ==
    \/ NextLoad
    \/ \E h \in Handlers : SetProgressHandler(h)
    \/ Terminate

SpecTerminate == Init /\ [][NextTerminate]_vars

\* The pool with progress messages from the units that load a model.
NextProgress ==
    \/ NextLoad
    \/ \E h \in Handlers \cup {NoHandler} : SetProgressHandler(h)
    \/ \E u \in Slots : UnitProgress(u)

SpecProgress == Init /\ [][NextProgress]_vars

\* One unit and the messages posted to it, whatever their order.
NextUnit ==
    \/ \E u \in Slots, m \in UnitModels : PostMessage(u, "loadModel", m)
    \/ \E u \in Slots, type \in {"generateText", "unloadModel"} :
          PostMessage(u, type, NoModel)
    \/ \E u \in Slots : UnitReceive(u)
    \/ \E u \in Slots, ok \in BOOLEAN : \E req \in units[u].pending : UnitFinish(u, req, ok)
    \/ \E u \in Slots : UnitProgress(u)
    \/ \E u \in Slots : Deliver(u)

SpecUnit == InitStore /\ [][NextUnit]_vars

\* The unit's chatCompletion, called with any messages and any systemPrompt
\* option.
InitChat ==
    /\ Construct(MinPoolSize, {})
    /\ gen = NoGen
    /\ \E messages \in MessageSeqs, systemPrompt \in SystemPrompts :
          chat = [NoChat EXCEPT !.pc = "called", !.messages = messages,
                                !.systemPrompt = systemPrompt]

NextChat ==
    \/ UnitChatCompletion
    \/ \E ok \in BOOLEAN : UnitChatCompletionReturn(ok)

SpecChat == InitChat /\ [][NextChat]_vars

\* A generation request of either type with any prompt, served by a unit
\* whose engine exposes any subset of the methods.
InitGenerate ==
    /\ chat = NoChat
    /\ Construct(MinPoolSize, {})
    /\ \E type \in {"generateText", "chatCompletion"}, handle \in SUBSET Methods,
          prompt \in Texts(MaxPromptLen) :
          gen = [NoGen EXCEPT !.pc = "called", !.type = type, !.handle = handle,
                               !.prompt = prompt]

NextGenerate ==
    \/ UnitGenerate
    \/ \E ok \in BOOLEAN : UnitGenerateReturn(ok)

SpecGenerate == InitGenerate /\ [][NextGenerate]_vars

\* Clients that keep to the protocol: a slot is passed to unloadModel by a
\* caller that holds it, once.  A loadModel call is started only while the
\* calls in progress can still finish within the bounds: each of them is left
\* the correlation ids of its load and of its unload, and an entry of the call
\* table is left for an unload.
UnloadInProgress(w) ==
    \E d \in Calls : calls[d].op = "unloadModel" /\ calls[d].arg = w /\ InProgress(d)

IdsNeeded ==
    2 * Cardinality({c \in Calls : calls[c].op = "loadModel" /\
                                   calls[c].pc \in {"waiting", "gotWorker"}})
    + Cardinality({c \in Calls : calls[c].op = "loadModel" /\
                                 calls[c].pc \in {"awaiting", "resumed"}})
    + Cardinality({c \in Calls : calls[c].pc = "holding" /\
                                 ~UnloadInProgress(calls[c].slot)})

LiveLoadModel(c, m) ==
    /\ Cardinality({d \in FreeCalls : d <= MaxCalls}) >= 2
    /\ nextCallbackId + IdsNeeded + 2 <= MaxCallbackId + 1
    /\ CallLoadModel(c, m)

LiveUnloadModel(c, w) ==
    /\ w \in busy
    /\ ~UnloadInProgress(w)
    /\ CallUnloadModel(c, w)

NextLive ==
    \/ \E c \in Calls, m \in Models : LiveLoadModel(c, m)
    \/ \E c \in Calls : LoadModelDispatch(c)
    \/ \E c \in Calls : LoadModelReturn(c)
    \/ \E c \in Calls, w \in Slots : LiveUnloadModel(c, w)
    \/ \E c \in Calls : UnloadModelReturn(c)
    \/ \E u \in Slots : Deliver(u)
    \/ \E u \in Slots : UnitReceive(u)
    \/ \E u \in Slots, ok \in BOOLEAN : \E req \in units[u].pending : UnitFinish(u, req, ok)

\* The slots of the largest pool.
AllSlots == 0..(PoolSize(MaxSize) - 1)

\* The continuations of the orchestrating side run, messages are delivered,
\* and every unit takes every request and answers it.
Scheduling ==
    /\ \A c \in Calls : WF_vars(LoadModelDispatch(c))
    /\ \A c \in Calls : WF_vars(LoadModelReturn(c))
    /\ \A c \in Calls : WF_vars(UnloadModelReturn(c))
    /\ \A u \in AllSlots : WF_vars(u \in Slots /\ Deliver(u))
    /\ \A u \in AllSlots : WF_vars(u \in Slots /\ UnitReceive(u))
    /\ \A u \in AllSlots :
          WF_vars(u \in Slots /\ \E ok \in BOOLEAN :
                                    \E req \in units[u].pending : UnitFinish(u, req, ok))

\* A caller holds slot w after a loadModel whose load succeeded in the unit.
LoadedHolder(w) == \E c \in HandleHolders(w) : calls[c].payload = "ok"

\* Every slot obtained by a loadModel whose load succeeded in the unit is
\* eventually passed to unloadModel.
SpecLive ==
    /\ Init
    /\ [][NextLive]_vars
    /\ Scheduling
    /\ \A w \in AllSlots :
          WF_vars(w \in Slots /\ LoadedHolder(w) /\ \E c \in Calls : LiveUnloadModel(c, w))

\* Every slot returned by loadModel is eventually passed to unloadModel.
SpecLiveAll ==
    /\ Init
    /\ [][NextLive]_vars
    /\ Scheduling
    /\ \A w \in AllSlots :
          WF_vars(w \in Slots /\ \E c \in Calls : LiveUnloadModel(c, w))

\* getWorker callers, and releaseWorker called with any id at any time.
NextRelease ==
    \/ \E c \in Calls : CallGetWorker(c)
    \/ \E c \in Calls : CallReleaseWorker(c)
    \/ \E w \in SlotArgs : CallReleaseWorkerById(w)

SpecRelease == Init /\ [][NextRelease]_vars

\* ---------------------------------------------------------------- claims
\* The callers that have been given a slot by getWorker and hold it.
HoldingCallers == {c \in Calls : calls[c].pc = "holding"}

\* C1: for every pool size, at most `size` callers hold a slot at the same
\* time (and at most `size` slots are busy), and a queued getWorker call is
\* resolved only in a step in which a holder releases the slot it is given.
C1_AtMostSizeHolders ==
    /\ [](Cardinality(HoldingCallers) <= size /\ Cardinality(busy) <= size)
    /\ [][\A c \in Calls :
            (calls[c].pc = "waiting" /\ calls'[c].pc # "waiting") =>
                \E h \in Calls : /\ calls[h].pc = "holding"
                                 /\ calls'[h].pc = "done"
                                 /\ calls'[c].pc = "holding"
                                 /\ calls'[c].slot = calls[h].slot]_vars

\* C1 witness: a pool of two slots, both held, and a further caller queued.
C1_Witness ==
    /\ size = 2
    /\ Cardinality(HoldingCallers) = size
    /\ Len(taskQueue) > 0

\* C2: a release resolves no waiter but the oldest one, and the queue keeps
\* the arrival order: it only loses its head and gains new waiters at the end.
C2_FifoWaiters ==
    [][/\ \A i \in 1..Len(taskQueue) :
             (calls'[taskQueue[i]].pc # "waiting") => i = 1
       /\ \E k \in 0..1 :
             /\ k <= Len(taskQueue)
             /\ Len(taskQueue') >= Len(taskQueue) - k
             /\ SubSeq(taskQueue', 1, Len(taskQueue) - k) =
                    SubSeq(taskQueue, k + 1, Len(taskQueue))]_vars

\* C2 witness: a waiter was handed a released slot while another still waits.
C2_Witness ==
    /\ Len(taskQueue) > 0
    /\ \E c \in Calls : calls[c].pc = "holding" /\ calls[c].via = "release"

\* C3: a slot is never held by two callers at the same time.
C3_SlotHeldByOne == \A s \in Slots : Cardinality(Holders(s)) <= 1

\* C4: a loadModel call whose load did not succeed in the unit (the unit's
\* result says success: false, or the unit answered with an error) does not
\* keep its slot once it has returned.
C4_FailedLoadReleasesSlot ==
    \A c \in Calls :
        (calls[c].op = "loadModel" /\ calls[c].payload \in {"fail", "error"} /\
         calls[c].pc \notin {"awaiting", "resumed"})
            => c \notin Holders(calls[c].slot)

\* C5: loadModel returns success: true only if the unit's load succeeded, and
\* returns a structured failure, never throwing, whenever it failed.
C5_LoadModelResult ==
    ret.op = "loadModel" =>
        /\ ret.res = "ok" => ret.payload = "ok"
        /\ ret.payload \in {"fail", "error"} => ret.res = "fail"

\* C6: generateText or chatCompletion called with an id that is not busy
\* returns a structured error, does not throw, and sends nothing to a unit.
C6_NotBusyIsStructuredError ==
    [][\A c \in Calls, w \in SlotArgs :
          (w \notin busy /\ (CallGenerateText(c, w) \/ CallChatCompletion(c, w)))
              => (ret'.res = "fail" /\ units' = units /\ callbacks' = callbacks)]_vars

\* C7: when unloadModel returns after the unit answered, the slot is idle or
\* has been handed to the oldest waiter.
C7_UnloadReleases ==
    [][(ret'.op = "unloadModel" /\ ret'.sent) =>
          \/ ret'.arg \in Range(idle')
          \/ /\ Len(taskQueue) > 0
             /\ taskQueue' = Tail(taskQueue)
             /\ calls'[Head(taskQueue)].slot = ret'.arg
             /\ calls'[Head(taskQueue)].pc = "gotWorker"]_vars

\* C7 witness: unloadModel returned after the unit reported a failed unload,
\* and the slot went to a waiter.
C7_Witness ==
    /\ ret.op = "unloadModel"
    /\ ret.sent
    /\ ret.payload = "fail"
    /\ \E c \in Calls : calls[c].pc = "gotWorker" /\ calls[c].via = "release" /\
                        calls[c].slot = ret.arg

\* The correlation ids of the requests dispatched to unit u and not answered
\* to the pool yet.
Unanswered(u) ==
    {units[u].inbox[i].id : i \in 1..Len(units[u].inbox)}
        \cup {req.id : req \in units[u].pending}
        \cup {units[u].outbox[i].id : i \in 1..Len(units[u].outbox)}

\* C8: no slot has two dispatched requests without an answer.
C8_OneRequestPerSlot == \A u \in Slots : Cardinality(Unanswered(u)) <= 1

\* C9: the callback table holds exactly the ids of the dispatched requests not
\* answered yet, and the continuation of an id is settled once when its
\* response has arrived and never more than once.
C9_CallbackTable ==
    /\ DOMAIN callbacks = UNION {Unanswered(u) : u \in Slots}
    /\ \A i \in CallbackIds :
          /\ settled[i] <= 1
          /\ settled[i] = 1 <=> (i < nextCallbackId /\ i \notin DOMAIN callbacks)
          /\ i \in DOMAIN callbacks => i < nextCallbackId

\* C9 witness: one response has been delivered while another request is out.
C9_Witness ==
    /\ \E i \in CallbackIds : settled[i] = 1
    /\ DOMAIN callbacks # {}

\* A step that delivers an error message of unit u to the pool.
DeliversError(u) ==
    /\ Len(units[u].outbox) > 0
    /\ Head(units[u].outbox).error
    /\ units' = [units EXCEPT ![u].outbox = Tail(@)]

\* C10: the delivery of an error message removes and rejects the callback of
\* its id and changes nothing else: not another callback, not another call,
\* not the idle set, the busy set or the wait queue.
C10_ErrorRejectsOnlyItsCallback ==
    [][\A u \in Slots :
          DeliversError(u) =>
              LET id == Head(units[u].outbox).id
              IN  /\ id \in DOMAIN callbacks
                  /\ DOMAIN callbacks' = DOMAIN callbacks \ {id}
                  /\ \A i \in DOMAIN callbacks' : callbacks'[i] = callbacks[i]
                  /\ calls'[callbacks[id]].settle = "rejected"
                  /\ \A c \in Calls \ {callbacks[id]} : calls'[c] = calls[c]
                  /\ \A i \in CallbackIds \ {id} : settled'[i] = settled[i]
                  /\ idle' = idle /\ busy' = busy /\ taskQueue' = taskQueue]_vars

\* C10 witness: a continuation was rejected while another callback is pending.
C10_Witness ==
    /\ \E c \in Calls : calls[c].pc = "resumed" /\ calls[c].settle = "rejected"
    /\ DOMAIN callbacks # {}

C12_NoIdleWhileWaiting == Len(taskQueue) > 0 => Len(idle) = 0

\* C12 witness: a release handed its slot to the oldest waiter while another
\* caller is still waiting.
C12_Witness ==
    /\ Len(taskQueue) > 0
    /\ \E c \in Calls : calls[c].via = "release" /\ calls[c].slot \in busy

\* C13: releaseWorker called with an id that is not busy does not throw and
\* leaves the idle set, the busy set, the wait queue and the callback table
\* (and the callers) as they were.
C13_ReleaseNotBusyIsNoOp ==
    [][\A w \in SlotArgs :
          (w \notin busy /\ CallReleaseWorkerById(w)) =>
              /\ ret'.res # "threw"
              /\ idle' = idle
              /\ busy' = busy
              /\ taskQueue' = taskQueue
              /\ callbacks' = callbacks
              /\ calls' = calls]_vars

\* C13 witness: a slot that is already idle was released again while the
\* other slot is busy and held.
C13_Witness ==
    /\ ret.op = "releaseWorker"
    /\ ret.res = "warned"
    /\ ret.arg \in Range(idle)
    /\ busy # {}
    /\ \E c \in Calls : calls[c].pc = "holding"

\* The bookkeeping of a terminated pool.
Cleared ==
    /\ workers = <<>>
    /\ idle = <<>>
    /\ busy = {}
    /\ taskQueue = <<>>
    /\ callbacks = <<>>
    /\ progressHandler = NoHandler

\* C14: terminate, called in any state, does not throw and leaves no workers,
\* an empty idle set, busy set, wait queue and callback table and no progress
\* handler; called on a pool it has already cleared, it changes nothing.
C14_TerminateClears ==
    [][ret'.op = "terminate" =>
          /\ ret'.res # "threw"
          /\ Cleared'
          /\ Cleared => (units' = units /\ calls' = calls)]_vars

\* C14 witness: terminate was called while a request was out, a caller was
\* waiting for a slot and a progress handler had been installed.
C14_Witness ==
    /\ ret.op = "terminate"
    /\ Cleared
    /\ \E c \in Calls : calls[c].pc = "awaiting"
    /\ \E c \in Calls : calls[c].pc = "waiting"

\* A step that delivers a progress message of unit u to the pool.
DeliversProgress(u) ==
    /\ Len(units[u].outbox) > 0
    /\ Head(units[u].outbox).type = "progress"
    /\ units' = [units EXCEPT ![u].outbox = Tail(@)]

\* C16: the installed handler is the one passed to the latest
\* setProgressHandler call, a progress message is handed to the installed
\* handler and to nothing else, and its delivery settles no continuation and
\* removes no callback.
C16_ProgressToLatestHandler ==
    [][/\ ret'.op = "setProgressHandler" => progressHandler' = ret'.arg
       /\ progressHandler' # progressHandler => ret'.op = "setProgressHandler"
       /\ ret'.op = "progressHandler" => \E u \in Slots : DeliversProgress(u)
       /\ \A u \in Slots :
             DeliversProgress(u) =>
                 /\ callbacks' = callbacks
                 /\ calls' = calls
                 /\ settled' = settled
                 /\ IF progressHandler = NoHandler
                    THEN ret'.op # "progressHandler"
                    ELSE ret'.op = "progressHandler" /\ ret'.arg = progressHandler]_vars

\* C16 witness: a progress message was handed to the second handler while a
\* callback is pending.
C16_Witness ==
    /\ ret.op = "progressHandler"
    /\ ret.arg = NumHandlers
    /\ DOMAIN callbacks # {}

\* C15: whichever units fail to be created, the idle set and the busy set
\* hold exactly the created units, once each and with no undefined entry, and
\* a getWorker call that finds the idle set non-empty returns a created unit.
C15_IdleIsCreatedUnits ==
    /\ [](/\ Undefined \notin Range(idle)
          /\ Range(idle) \cup busy = Range(workers)
          /\ Len(idle) + Cardinality(busy) = Len(workers))
    /\ [][\A c \in Calls :
            (Len(idle) > 0 /\ CallGetWorker(c)) =>
                /\ ret'.res # "threw"
                /\ calls'[c].pc = "holding"
                /\ calls'[c].slot \in Range(workers)]_vars

\* C17: when a downloadModelInChunks run that found no chunk record of the
\* model returns true, with reported size S and chunk size C, the chunk
\* records of the model are those of the indices 0 .. ceil(S/C)-1 and
\* isModelDownloadComplete is true.
C17_DownloadStoresAllChunks ==
    (ret.op = "downloadModelInChunks" /\ ret.res = "true" /\ runs[ret.arg].had = {}) =>
        LET run == runs[ret.arg]
            S == run.contentLength
            C == run.chunkSize
            N == IF S % C = 0 THEN S \div C ELSE S \div C + 1
        IN  /\ S > 0 /\ C > 0
            /\ ChunkIndices(chunks, run.modelId) = 0..(N - 1)
            /\ Cardinality({ch \in chunks : ch[1] = run.modelId}) = N
            /\ IsModelDownloadComplete(models, chunks, run.modelId)

\* C17 witness: a download of a file whose size is not a multiple of the
\* chunk size, in more than one chunk, has returned true.
C17_Witness ==
    /\ ret.op = "downloadModelInChunks"
    /\ ret.res = "true"
    /\ runs[ret.arg].had = {}
    /\ runs[ret.arg].contentLength % runs[ret.arg].chunkSize # 0
    /\ runs[ret.arg].numChunks > 1

\* C18: a run requests a range only for an index that has no chunk record
\* when the index is reached, so never for an index persisted when the run
\* started; and a run that returns true has requested exactly the indices
\* that were missing when it started, each once and in ascending order: after
\* chunks [0..k) of N, a resume requests k, k+1, .. N-1.
C18_NoRefetch ==
    /\ [][\A r \in Runs :
            net'[r] # net[r] =>
                LET req == net'[r][Len(net'[r])]
                IN  req.kind = "range" =>
                        /\ ~GetModelChunk(chunks, runs[r].modelId, req.index)
                        /\ req.index = runs[r].i]_vars
    /\ [](\A r \in Runs :
            /\ \A k \in 1..Len(net[r]) : net[r][k].index \notin runs[r].had
            /\ (ret.op # "none" /\ ret.op # "isModelDownloadComplete" /\ ret.arg = r /\
                ret.res = "true") =>
                  LET idx == RangeIndices(net[r])
                  IN  /\ Range(idx) = (0..(runs[r].numChunks - 1)) \ runs[r].had
                      /\ \A a, b \in 1..Len(idx) : a < b => idx[a] < idx[b])

\* C18 witness: a resume that found chunk 0 persisted, and chunks missing,
\* returned true after requesting the missing chunks.
C18_Witness ==
    /\ ret.op = "resumeModelDownload"
    /\ ret.res = "true"
    /\ 0 \in runs[ret.arg].had
    /\ runs[ret.arg].had = 0..(Cardinality(runs[ret.arg].had) - 1)
    /\ Len(RangeIndices(net[ret.arg])) >= 2
    /\ RangeIndices(net[ret.arg])[1] = Cardinality(runs[ret.arg].had)

\* The chunk indices a complete model must have records for: those counted
\* in its record, or at least index 0 (every file has a first chunk) when the
\* record has no count.
RequiredIndices(record) ==
    IF record.chunks = Absent THEN {0} ELSE 0..(record.chunks - 1)

\* C19: isModelDownloadComplete returns true exactly when the model has a
\* record and a chunk record for every chunk index, whatever record was saved.
C19_CompleteIffAllChunks ==
    ret.op = "isModelDownloadComplete" =>
        (ret.res = "true" <=>
            /\ ret.arg \in DOMAIN models
            /\ RequiredIndices(models[ret.arg]) \subseteq ChunkIndices(chunks, ret.arg))

\* C20: every step of a deleteModel call leaves the stores as they are or
\* removes the model record and all the chunk records of the model at once,
\* also when the call fails in the middle.
C20_DeleteAllOrNothing ==
    [][tx.open =>
          \/ models' = models /\ chunks' = chunks
          \/ /\ tx.modelId \notin DOMAIN models'
             /\ ChunkIndices(chunks', tx.modelId) = {}
             /\ \A m \in DOMAIN models \ {tx.modelId} :
                   /\ m \in DOMAIN models'
                   /\ models'[m] = models[m]
                   /\ ChunkIndices(chunks', m) = ChunkIndices(chunks, m)]_vars

\* C20 witness: a delete of a model with a record and two or more chunk
\* records is about to commit: its transaction has removed them all, the
\* stores still hold them all.
C20_Witness ==
    /\ tx.open
    /\ tx.stage = "commit"
    /\ tx.modelId \in DOMAIN models
    /\ Cardinality(ChunkIndices(chunks, tx.modelId)) >= 2
    /\ tx.modelId \notin DOMAIN tx.models
    /\ ChunkIndices(tx.chunks, tx.modelId) = {}

\* C21: in every reachable state the number of chunk records of a model does
\* not exceed the chunk count of its model record, after any downloads and
\* resumes with any chunk sizes and reported sizes.
C21_ChunkRecordsWithinCount ==
    \A m \in DOMAIN models :
        models[m].chunks # Absent =>
            Cardinality(ChunkIndices(chunks, m)) <= models[m].chunks

\* C28: the range request for chunk i of a file of size S with chunk size C
\* asks for the bytes of that chunk: from i*C to min((i+1)*C, S) - 1, so the
\* range of the last chunk ends at byte S-1.
C28_RangeIsChunkBytes ==
    \A r \in Runs :
        \A k \in 1..Len(net[r]) :
            LET req == net[r][k]
                C == runs[r].chunkSize
                S == runs[r].contentLength
            IN  req.kind = "range" =>
                    /\ req.index \in 0..(Ceil(S, C) - 1)
                    /\ req.start = req.index * C
                    /\ req.end = Min((req.index + 1) * C, S) - 1

\* C30: resumeModelDownload re-runs the chunking with the url and the chunk
\* size stored in the model record, whatever options the caller passes.
C30_ResumeUsesStoredPlan ==
    [][\A r \in Runs :
          (runs[r].pc = "resume" /\ runs'[r].pc = "head") =>
              /\ runs'[r].url = models[runs[r].modelId].url
              /\ runs'[r].chunkSize = models[runs[r].modelId].chunkSize]_vars

\* C29: when a run of downloadModelInChunks issues a range request, the store
\* holds the model record of the run: its url, the reported size, its chunk
\* size and the count ceil(size / chunkSize); a run whose size probe fails or
\* reports no size ends there and writes no model record and no chunk record.
C29_RecordBeforeRanges ==
    [][\A r \in Runs :
          LET m == runs[r].modelId
              S == runs[r].contentLength
              C == runs[r].chunkSize
          IN  /\ (net'[r] # net[r] /\ net'[r][Len(net'[r])].kind = "range") =>
                    /\ m \in DOMAIN models
                    /\ models[m] = [url |-> runs[r].url, size |-> S, chunkSize |-> C,
                                    chunks |-> IF S % C = 0 THEN S \div C
                                                            ELSE S \div C + 1]
              /\ runs[r].pc = "head" => models' = models /\ chunks' = chunks
              /\ (runs[r].pc = "head" /\ runs'[r].pc # "saveMeta") =>
                    /\ runs'[r].pc = "done"
                    /\ ret'.res = "threw"]_vars

\* C29 witness: the first run's size probe failed and left the store empty of
\* records; the second run has put its record of two or more chunks and has
\* just issued its first range request.
C29_Witness ==
    /\ net[1] = <<HeadRequest(runs[1].url)>>
    /\ runs[1].pc = "done"
    /\ runs[2].pc = "fetch"
    /\ Len(net[2]) = 2
    /\ runs[2].had = {}
    /\ models[runs[2].modelId].chunks >= 2
    /\ chunks = {}

\* C22: a range request answered with a bad status ends the run in that
\* step: the run throws to its caller and reports the 'error' event, no
\* request is issued in the step or later by the run, no chunk record is
\* written for the failed chunk and the stores are left as they are.
C22_FailedRangeAborts ==
    [][\A r \in Runs :
          /\ (runs[r].pc = "fetch" /\ runs'[r].pc # "save") =>
                /\ runs'[r].pc = "done"
                /\ ret' = StoreReturn(runs[r].op, r, "threw")
                /\ events'[r] = Append(events[r], Progress("error", Absent))
                /\ net' = net
                /\ chunks' = chunks
                /\ models' = models
                /\ <<runs[r].modelId, runs[r].i>> \notin chunks'
          /\ (runs[r].op # "none" /\ runs[r].pc = "done") =>
                /\ runs'[r] = runs[r]
                /\ net'[r] = net[r]
                /\ events'[r] = events[r]]_vars

\* C22 witness: a run of three or more chunks has thrown on the bad answer for
\* its second chunk, after it saved the first.
C22_Witness ==
    /\ ret.res = "threw"
    /\ ret.op = "downloadModelInChunks"
    /\ runs[ret.arg].i = 1
    /\ runs[ret.arg].numChunks >= 3
    /\ <<runs[ret.arg].modelId, 0>> \in chunks
    /\ RangeIndices(net[ret.arg]) = <<0, 1>>
    /\ events[ret.arg][Len(events[ret.arg])].phase = "error"

\* C23: resumeModelDownload for a model without a model record throws, issues
\* no network request and leaves the stores as they are.
C23_ResumeWithoutRecordFails ==
    [][\A r \in Runs :
          (runs[r].op = "resumeModelDownload" /\ runs[r].pc = "resume" /\
           ~tx.open /\ runs[r].modelId \notin DOMAIN models /\ runs'[r] # runs[r]) =>
              /\ ret' = StoreReturn("resumeModelDownload", r, "threw")
              /\ runs'[r].pc = "done"
              /\ net'[r] = <<>>
              /\ models' = models
              /\ chunks' = chunks]_vars

\* C23 witness: a resume for a model without a record has thrown without a
\* request, after an earlier run had downloaded the model and a delete had
\* removed it.
C23_Witness ==
    /\ ret.op = "resumeModelDownload"
    /\ ret.res = "threw"
    /\ net[ret.arg] = <<>>
    /\ models = <<>>
    /\ ret.arg = 2
    /\ RangeIndices(net[1]) # <<>>

\* C26: the boolean unloadModel returns for a busy slot is the outcome of the
\* unit's unload: true exactly when the unit reported a successful unload,
\* false when it reported a failed unload or an error.
C26_UnloadResultIsUnitOutcome ==
    (ret.op = "unloadModel" /\ ret.sent) =>
        (ret.res = "true" <=> (ret.settle = "resolved" /\ ret.payload = "ok"))

\* The head of unit u's inbox is a load request for the model the unit
\* holds, and the unit is in the loaded state.
HoldsRequested(u) ==
    /\ Len(units[u].inbox) > 0
    /\ Head(units[u].inbox).type = "loadModel"
    /\ ~units[u].isLoading
    /\ units[u].engine # NoModel
    /\ units[u].engine = Head(units[u].inbox).modelId
    /\ units[u].modelId = Head(units[u].inbox).modelId

\* C25: a load request for the model the unit holds is answered with success
\* in the step that takes it: no call of the model runtime is started for it,
\* no progress message is posted, and the engine and the model id stay.
C25_LoadOfHeldModelReturns ==
    [][\A u \in Slots :
          (HoldsRequested(u) /\ units'[u].inbox = Tail(units[u].inbox)) =>
              LET req == Head(units[u].inbox)
              IN  /\ units'[u].outbox =
                        Append(units[u].outbox,
                               [type |-> "loadModel", id |-> req.id, error |-> FALSE,
                                ok |-> TRUE, modelId |-> req.modelId])
                  /\ units'[u].pending = units[u].pending
                  /\ units'[u].engine = units[u].engine
                  /\ units'[u].modelId = units[u].modelId
                  /\ units'[u].isLoading = FALSE]_vars

\* C25 witness: two load requests for model 1, and nothing else, were posted
\* to the unit; the unit holds model 1 and both answers are successes.
C25_Witness ==
    \E u \in Slots :
        /\ nextCallbackId = FirstCallbackId + 2
        /\ units[u].engine = 1
        /\ units[u].inbox = <<>>
        /\ units[u].pending = {}
        /\ Len(units[u].outbox) = 2
        /\ \A k \in 1..2 :
              /\ units[u].outbox[k].type = "loadModel"
              /\ units[u].outbox[k].ok
              /\ units[u].outbox[k].modelId = 1

\* An option that is not passed, or whose text is white space only (the
\* empty text included).
Blank(option) == \A text \in option : \A k \in DOMAIN text : text[k] = Space

C27_NoWaiterWaitsForever ==
    \A c \in Calls :
        (calls[c].op = "loadModel" /\ calls[c].pc = "waiting")
            ~> (calls[c].pc # "waiting")

\* C31: a resume takes the size and the chunk count from the saved record and
\* sends no size request: its only network requests are range requests, for
\* chunks that were missing when it started.
C31_ResumeSendsRangesOnly ==
    \A r \in Runs :
        runs[r].op = "resumeModelDownload" =>
            \A k \in 1..Len(net[r]) :
                /\ net[r][k].kind = "range"
                /\ net[r][k].index \notin runs[r].had

\* C32: a run issues its range requests in strictly ascending index order and
\* one at a time: when it issues the request for an index, no request of it is
\* outstanding and no fetched chunk is waiting to be saved, and every lower
\* index of the plan has its chunk record.
C32_OneChunkAtATime ==
    /\ [][\A r \in Runs :
            net'[r] # net[r] /\ net'[r][Len(net'[r])].kind = "range" =>
                LET j == net'[r][Len(net'[r])].index
                IN  /\ runs[r].pc \notin {"fetch", "save"}
                    /\ j = runs[r].i
                    /\ \A i \in 0..(j - 1) : <<runs[r].modelId, i>> \in chunks
                    /\ \A k \in 1..Len(net[r]) :
                          net[r][k].kind = "range" => net[r][k].index < j]_vars
    /\ [][\A r \in Runs : runs'[r].i # runs[r].i =>
                              runs'[r].i = 0 \/ runs'[r].i = runs[r].i + 1]_vars

\* C32 witness: a run of three chunks that found the first one in the store
\* has fetched and saved the second and has requested the third.
C32_Witness ==
    \E r \in Runs :
        /\ runs[r].pc = "fetch"
        /\ runs[r].had = {0}
        /\ runs[r].numChunks = 3
        /\ RangeIndices(net[r]) = <<1, 2>>
        /\ <<runs[r].modelId, 1>> \in chunks

\* C33: the progress events of a run are ordered: 'init' comes first, before
\* every 'downloading'; 'chunk_saved' for a chunk is reported in a state where
\* its chunk record is in the store; 'complete' and 'error' are each the last
\* event of the run, so that at most one of them is reported, once; and
\* 'complete' is reported only in a state where every index of the plan has
\* its chunk record.
C33_ProgressEventsOrdered ==
    /\ [](\A r \in Runs : \A k \in 1..Len(events[r]) :
            /\ events[r][k].phase = "init" => k = 1
            /\ events[r][k].phase = "downloading" =>
                  k > 1 /\ events[r][1].phase = "init"
            /\ events[r][k].phase \in {"complete", "error"} => k = Len(events[r]))
    /\ [][\A r \in Runs : \A k \in (Len(events[r]) + 1)..Len(events'[r]) :
            /\ events'[r][k].phase = "chunk_saved" =>
                  <<runs[r].modelId, events'[r][k].chunk - 1>> \in chunks'
            /\ events'[r][k].phase = "complete" =>
                  \A i \in 0..(runs'[r].numChunks - 1) :
                      <<runs[r].modelId, i>> \in chunks']_vars

\* C34: the unit handles requests one after another: it takes a request from
\* its inbox only when no earlier request is suspended in the model runtime,
\* so that at most one request is suspended at any time.
C34_UnitHandlesSequentially ==
    /\ [][\A u \in DOMAIN units :
            Len(units'[u].inbox) < Len(units[u].inbox) => units[u].pending = {}]_vars
    /\ [](\A u \in DOMAIN units : Cardinality(units[u].pending) <= 1)

\* C35: generateText and chatCompletion called on a busy slot return a
\* structured result and never throw: when the unit answered with an error
\* (no model loaded) or with a failure (no such method, the runtime threw),
\* the result is { success: false, error }, and the return leaves the slot
\* bookkeeping as it is.  A call on a busy slot always sends its request.
C35_InferenceNeverRejects ==
    /\ [][(ret'.op \in {"generateText", "chatCompletion"} /\ ret'.sent) =>
            /\ ret'.res \in {"ok", "fail"}
            /\ ret'.res = "ok" <=> ret'.payload = "ok"
            /\ ret'.payload \in {"fail", "error"} => ret'.res = "fail"
            /\ busy' = busy /\ idle' = idle /\ taskQueue' = taskQueue]_vars
    /\ [][\A c \in Calls, w \in busy :
            (CallGenerateText(c, w) \/ CallChatCompletion(c, w)) =>
                /\ ret'.res # "threw"
                /\ calls'[c].pc = "awaiting"
                /\ busy' = busy]_vars

\* C35 witness: generateText on a busy slot whose unit holds no engine has
\* returned a failure after its promise was rejected, and the slot is busy.
C35_Witness ==
    /\ ret.op = "generateText"
    /\ ret.sent
    /\ ret.settle = "rejected"
    /\ ret.res = "fail"
    /\ ret.arg \in busy
    /\ units[ret.arg].engine = NoModel

\* C36: serving a generation request, the unit invokes the first method the
\* engine exposes in the order chatCompletion, completion, generate, and
\* fails without invoking a method only when the engine exposes none.
C36_PrefersChatCompletion ==
    gen.pc \in {"awaiting", "done"} =>
        /\ "chatCompletion" \in gen.handle => gen.invoked = "chatCompletion"
        /\ "chatCompletion" \notin gen.handle /\ "completion" \in gen.handle =>
              gen.invoked = "completion"
        /\ gen.handle = {"generate"} => gen.invoked = "generate"
        /\ gen.invoked = NoMethod <=> gen.handle = {}

\* The calls whose continuation nothing refers to any more: their promise is
\* pending and neither the callback table nor the wait queue holds them.
Discarded ==
    {c \in Calls : /\ calls[c].pc \in {"awaiting", "waiting"}
                   /\ \A i \in DOMAIN callbacks : callbacks[i] # c
                   /\ \A k \in 1..Len(taskQueue) : taskQueue[k] # c}

\* C37: terminate settles none of the continuations that are pending in the
\* callback table or waiting in the queue when it is called, it leaves all
\* of them discarded, and a discarded continuation is never settled by a
\* later step, whatever message arrives.
C37_TerminateDiscardsPending ==
    /\ [][ret'.op = "terminate" =>
            \A c \in Calls :
                calls[c].pc \in {"awaiting", "waiting"} =>
                    calls'[c] = calls[c] /\ c \in Discarded']_vars
    /\ [][\A c \in Discarded : calls'[c] = calls[c] /\ c \in Discarded']_vars

\* C37 witness: after terminate one caller awaits an answer, another waits
\* for a slot, and the answer of a stopped unit is still to arrive.
C37_Witness ==
    /\ workers = <<>>
    /\ ret.op # "terminate"
    /\ \E c \in Discarded : calls[c].pc = "awaiting"
    /\ \E c \in Discarded : calls[c].pc = "waiting"
    /\ \E u \in DOMAIN units :
          /\ Len(units[u].outbox) > 0
          /\ Head(units[u].outbox).type # "progress"

\* C38: whenever a unit is not loading, it holds an engine exactly when it
\* has a model id recorded, and the engine is the one created for that id;
\* when a load has failed or an unload has finished, the unit holds no
\* engine and, unless a load is in progress, no model id.
C38_EngineIffModelId ==
    /\ [](\A u \in DOMAIN units :
            ~units[u].isLoading => units[u].engine = units[u].modelId)
    /\ [][\A u \in DOMAIN units :
            \A req \in units[u].pending :
                (/\ req \notin units'[u].pending
                 /\ \/ req.type = "unloadModel"
                    \/ (req.type = "loadModel" /\
                        units'[u].outbox[Len(units'[u].outbox)].ok = FALSE))
                    => /\ units'[u].engine = NoModel
                       /\ ~units'[u].isLoading => units'[u].modelId = NoModel]_vars

\* C39: of the runs for one model that are in flight at the same time, at
\* most one range-fetches a given chunk index: a run issues the range
\* request of an index only if no other run in flight for the model has
\* issued one for that index.
C39_NoDoubleFetch ==
    [][\A r \in Runs :
          (net'[r] # net[r] /\ net'[r][Len(net'[r])].kind = "range") =>
              \A q \in Runs \ {r} :
                  (runs[q].pc # "done" /\ runs[q].modelId = runs[r].modelId) =>
                      \A k \in 1..Len(net[q]) :
                          net[q][k].kind = "range" =>
                              net[q][k].index # net'[r][Len(net'[r])].index]_vars

\* C40: every chunk record belongs to a model record: in no state, and in
\* particular in no state after a deleteModel has committed while a download
\* of the model was in flight, is there a chunk record of a model without
\* the model's record.
C40_NoOrphanChunks == \A ch \in chunks : ch[1] \in DOMAIN models

====
